---- MODULE Spec2Model ----
(***************************************************************************)
(* openwrt-composer: the staged firmware build pipeline                    *)
(* (builder.py: Builder.build_firmware, podman.py: PodmanBuilder), the     *)
(* context directories and the builder archive it keeps on disk, and the   *)
(* container engine's image store (Spec); the materialization of a        *)
(* firmware's files directory from literal files and from a rendered       *)
(* configuration (SpecFiles: main.create_files, schemas.py,                *)
(* netjsonconfig.py); the names a Builder derives from its BuildSpec       *)
(* (SpecTags); the validation of a manifest and the build directories of  *)
(* its firmwares (SpecManifest); two pipelines run concurrently            *)
(* (SpecRace); the configuration's files and upgrade archive (SpecConfig); *)
(* the three package list serializers (SpecPackages); and the batch       *)
(* driver main.build over the firmwares of a manifest (SpecBatch).         *)
(*                                                                         *)
(* Python strings are TLA+ strings (joined with \o); Python's None is the  *)
(* string None; an Optional value that is not a string is a record with an *)
(* is_none field.  An exception is the string of its class name.           *)
(***************************************************************************)
EXTENDS Integers, Sequences, FiniteSets, TLC

None == "None"
Range(seq) == {seq[i] : i \in DOMAIN seq}

\* ------------------------------------------------------------------ bounds
\* pipeline runs one pipeline performs, one after the other
MaxRuns == 2
\* 1024-byte blocks in the body of the archive the remote origin serves
NumBlocks == 2
\* entries in the files list of one materializer call
MaxEntries == 2
\* packages in a rendered configuration
MaxSections == 2
\* materializer calls made on one files directory
MaxCalls == 2
\* firmwares in a manifest
MaxFirmwares == 3
\* names in the add list and in the remove list of a package delta
MaxNames == 2
\* firmwares in the manifest the batch driver is given
MaxBatch == 2
\* pipeline runs each of two concurrent workers performs
MaxRaceRuns == 2

\* ------------------------------------------------------- inputs (small sets)
\* pipeline 1 is the program's own loop over the manifest; pipeline 2 stands
\* for a second worker on the same work directory and image store
Pipelines == {1, 2}
work_dir == "work"
\* (version, target, sub_target) of the firmwares built
Tiers == {<<"23.05.0", "x86", "64">>}
Profiles == {"generic"}
ExtraNames == {None, "lab"}
OutputDirs == {"build/firmware"}
FilesDirs == {None, "build/files"}
NoDelta == [is_none |-> TRUE, add |-> <<>>, remove |-> <<>>]
Delta(a, r) == [is_none |-> FALSE, add |-> a, remove |-> r]
PackageDeltas == {NoDelta, Delta(<<>>, <<>>), Delta(<<"a", "b">>, <<"c">>)}

\* ------------------------------------------------------------ builder.py
_ENTRYPOINT_SCRIPT == "#!/bin/bash\nset -e\nexec \"$@\"\n"
_ENTRYPOINT_SCRIPT_NAME == "entrypoint.sh"
_BASE_CONTAINERFILE ==
    "FROM fedora:39\nRUN dnf -y install ...\nCOPY " \o _ENTRYPOINT_SCRIPT_NAME
    \o " /" \o _ENTRYPOINT_SCRIPT_NAME \o "\n..."
_BASE_IMAGE_TAG == "openwrt-composer-base"
_BUILDER_CONTAINERFILE(archive_file, archive_dir, entrypoint_script_name) ==
    "FROM openwrt-composer-base\nCOPY " \o entrypoint_script_name \o " /"
    \o entrypoint_script_name \o "\n...\nCOPY --chown=openwrt:openwrt "
    \o archive_file \o " .\nUSER openwrt\nRUN tar -xf " \o archive_file
    \o "\nWORKDIR /openwrt/" \o archive_dir \o "\n..."

\* pathlib's a / b
PathJoin(a, b) == a \o "/" \o b

\* Builder.__init__: the names derived from (version, target, sub_target)
builder_image_tag(version, target, sub_target) ==
    "openwrt-composer-" \o version \o "-" \o target \o "-" \o sub_target
archive_dir_name(version, target, sub_target) ==
    "openwrt-imagebuilder-" \o version \o "-" \o target \o "-" \o sub_target
    \o ".Linux-x86_64"
archive_file_name(version, target, sub_target) ==
    archive_dir_name(version, target, sub_target) \o ".tar.xz"
base_context_dir(wd) == PathJoin(wd, "base")
builder_context_dir(wd, version, target, sub_target) ==
    PathJoin(PathJoin(PathJoin(wd, version), target), sub_target)
builder_containerfile(version, target, sub_target) ==
    _BUILDER_CONTAINERFILE(archive_file_name(version, target, sub_target),
                           archive_dir_name(version, target, sub_target),
                           _ENTRYPOINT_SCRIPT_NAME)
builder_archive(wd, version, target, sub_target) ==
    PathJoin(builder_context_dir(wd, version, target, sub_target),
             archive_file_name(version, target, sub_target))

\* ------------------------------------------------------------- filesystem
Absent == [kind |-> "absent", contents |-> ""]
Dir == [kind |-> "dir", contents |-> ""]
File(c) == [kind |-> "file", contents |-> c]
exists(f, path) == f[path].kind # "absent"
is_dir(f, path) == f[path].kind = "dir"

RECURSIVE Blocks(_)
Blocks(n) == IF n = 0 THEN "" ELSE "#" \o Blocks(n - 1)
\* the body the remote origin serves for an archive
ArchiveBody == Blocks(NumBlocks)

ContextDirs ==
    {base_context_dir(work_dir)}
    \cup {builder_context_dir(work_dir, t[1], t[2], t[3]) : t \in Tiers}
ContextFiles(d) ==
    {PathJoin(d, "Containerfile"), PathJoin(d, _ENTRYPOINT_SCRIPT_NAME)}
Archives == {builder_archive(work_dir, t[1], t[2], t[3]) : t \in Tiers}
Paths == ContextDirs \cup UNION {ContextFiles(d) : d \in ContextDirs} \cup Archives
ParentOf(path) ==
    CHOOSE d \in ContextDirs :
        path \in ContextFiles(d)
        \/ \E t \in Tiers : /\ d = builder_context_dir(work_dir, t[1], t[2], t[3])
                            /\ path = builder_archive(work_dir, t[1], t[2], t[3])
AllTags == {_BASE_IMAGE_TAG} \cup {builder_image_tag(t[1], t[2], t[3]) : t \in Tiers}

VARIABLES
    images,   \* the container engine's image store: the tags that exist
    fs,       \* the work directory: path -> Absent, Dir or File(contents)
    pipe,     \* per pipeline: the Builder, the arguments and the position of its run
    tree,     \* a firmware's files directory: path parts -> Absent, Dir or File
    mat,      \* the materialization calls made on the files directory
    calc      \* a pure function of the program, its arguments and its result

vars == <<images, fs, pipe, tree, mat, calc>>
pipeline_vars == <<images, fs, pipe>>
files_vars == <<tree, mat>>


\* ------------------------------------------------- schemas.py, cli.py, main.py
RECURSIVE str_join(_, _)
\* sep.join(list)
str_join(sep, list) ==
    IF list = <<>> THEN ""
    ELSE IF Len(list) = 1 THEN list[1]
    ELSE list[1] \o sep \o str_join(sep, Tail(list))

\* a serializer that puts the removals first
as_string_removes_first(spec) ==
    LET packages_list ==
            [i \in 1..Len(spec.remove) |-> "-" \o spec.remove[i]] \o spec.add
    IN  str_join(" ", packages_list)

\* PackagesSpec.as_string
as_string(spec) ==
    LET packages_list ==
            spec.add \o [i \in 1..Len(spec.remove) |-> "-" \o spec.remove[i]]
    IN  str_join(" ", packages_list)

\* main.build (and cli.build): the packages argument handed to
\* build_firmware, None when the firmware has no packages section
packages_argument(delta) ==
    IF ~delta.is_none THEN as_string(delta) ELSE None

\* ---------------------------------------------------------------- podman.py
\* podman.py:26: logger = logging.getLogger(__name__).addHandler(...), and
\* Logger.addHandler returns None
podman_logger == None

\* logger.info(...) / logger.exception(...) on the module's logger: the
\* exception the attribute lookup raises, or None
logger_call(logger) == IF logger = None THEN "AttributeError" ELSE None

\* an existence check that pulls the image it is asked about
_image_exists_pulls(imgs, tag, response) ==
    IF response = "RequestException"
    THEN [exc |-> "PodmanException", value |-> FALSE, images |-> imgs]
    ELSE [exc |-> None, value |-> TRUE, images |-> imgs \cup {tag}]

\* PodmanBuilder._image_exists; response is what client.images.exists does,
\* images is the store after the call
_image_exists(imgs, tag, response) ==
    IF response = "RequestException"
    THEN [exc |-> IF logger_call(podman_logger) # None
                  THEN logger_call(podman_logger) ELSE "PodmanException",
          value |-> FALSE, images |-> imgs]
    ELSE [exc |-> None, value |-> tag \in imgs, images |-> imgs]

\* a gate that answers "needed" exactly when the image exists
_base_image_build_needed_inverted(imgs, response) ==
    _image_exists(imgs, _BASE_IMAGE_TAG, response)

_base_image_build_needed(imgs, response) ==
    LET r == _image_exists(imgs, _BASE_IMAGE_TAG, response)
    IN  [r EXCEPT !.value = ~r.value]

\* a builder gate that answers "needed" exactly when the image exists
_builder_image_build_needed_inverted(imgs, tag, response) ==
    _image_exists(imgs, tag, response)

_builder_image_build_needed(imgs, tag, response) ==
    LET r == _image_exists(imgs, tag, response)
    IN  [r EXCEPT !.value = ~r.value]

\* a build failure that is swallowed instead of raised
_create_image_swallows(result, failure) == None

\* PodmanBuilder._create_base_image / _create_builder_image after
\* client.images.build ended with `result`: the exception raised, or None
_create_image_raises(result, failure) ==
    IF result \in {"BuildError", "APIError"}
    THEN IF logger_call(podman_logger) # None
         THEN logger_call(podman_logger) ELSE failure
    ELSE logger_call(podman_logger)

\* Path.absolute()
absolute(path) == PathJoin("/cwd", path)

\* the files directory mounted read-write
firmware_mounts_files_rw(output_dir, files_dir) ==
    <<[type |-> "bind", source |-> absolute(output_dir),
       target |-> "/openwrt/result", read_only |-> FALSE, relabel |-> "Z"]>>
    \o (IF files_dir # None
        THEN <<[type |-> "bind", source |-> absolute(files_dir),
                target |-> "/openwrt/files", read_only |-> FALSE, relabel |-> "Z"]>>
        ELSE <<>>)

\* PodmanBuilder._build_firmware: the mounts list
firmware_mounts(output_dir, files_dir) ==
    <<[type |-> "bind", source |-> absolute(output_dir),
       target |-> "/openwrt/result", read_only |-> FALSE, relabel |-> "Z"]>>
    \o (IF files_dir # None
        THEN <<[type |-> "bind", source |-> absolute(files_dir),
                target |-> "/openwrt/files", read_only |-> TRUE, relabel |-> "Z"]>>
        ELSE <<>>)

NoCommand == [is_none |-> TRUE, argv |-> <<>>]
Command(argv) == [is_none |-> FALSE, argv |-> argv]

\* PodmanBuilder._build_firmware: the client.containers.run(...) call; no
\* command argument is passed, so the engine gets command=None
containers_run_call(tag, mounts, cmd) ==
    [image |-> tag, mounts |-> mounts, command |-> NoCommand, remove |-> TRUE]

\* PodmanBuilder._build_firmware after containers.run ended with `result`
_build_firmware_raises(result) ==
    IF result \in {"ContainerError", "ImageNotFound", "APIError"}
    THEN IF logger_call(podman_logger) # None
         THEN logger_call(podman_logger) ELSE "FirmwareBuildFailure"
    ELSE None

\* ------------------------------------------------- builder.py: operations
RECURSIVE write_files(_, _, _, _, _)
\* open(context_dir / name, "w") and write, entry by entry; the fail_at-th
\* entry raises OSError (0: none does), either in open(), which leaves the
\* file as it was, or in write(), after open() truncated it
write_files(f, context_dir, entries, fail_at, truncated) ==
    IF entries = <<>> THEN [fs |-> f, exc |-> None]
    ELSE IF fail_at = 1
    THEN [fs |-> IF truncated
                 THEN [f EXCEPT ![PathJoin(context_dir, entries[1][1])] = File("")]
                 ELSE f,
          exc |-> "OSError"]
    ELSE write_files(
            [f EXCEPT ![PathJoin(context_dir, entries[1][1])] = File(entries[1][2])],
            context_dir, Tail(entries),
            IF fail_at = 0 THEN 0 ELSE fail_at - 1, truncated)

\* a preparer that writes only into a directory it created itself
_prepare_context_dir_keeps_existing(f, context_dir, containerfile, files, mkdir_ok, fail_at, truncated) ==
    IF exists(f, context_dir) /\ ~is_dir(f, context_dir)
    THEN [fs |-> f, exc |-> "ContextDirectoryCreationFailure"]
    ELSE IF ~exists(f, context_dir) /\ ~mkdir_ok
    THEN [fs |-> f, exc |-> "ContextDirectoryCreationFailure"]
    ELSE IF is_dir(f, context_dir) THEN [fs |-> f, exc |-> None]
    ELSE write_files([f EXCEPT ![context_dir] = Dir], context_dir,
                     <<<<"Containerfile", containerfile>>>>
                     \o (IF files.is_none THEN <<>> ELSE files.items),
                     fail_at, truncated)

\* a preparer that does not look at what the root is
_prepare_context_dir_ignores_kind(f, context_dir, containerfile, files, mkdir_ok, fail_at, truncated) ==
    write_files([f EXCEPT ![context_dir] = Dir], context_dir,
                <<<<"Containerfile", containerfile>>>>
                \o (IF files.is_none THEN <<>> ELSE files.items),
                fail_at, truncated)

\* _prepare_context_dir; files is [is_none, items]: the dict's items in order
_prepare_context_dir(f, context_dir, containerfile, files, mkdir_ok, fail_at, truncated) ==
    IF exists(f, context_dir) /\ ~is_dir(f, context_dir)
    THEN [fs |-> f, exc |-> "ContextDirectoryCreationFailure"]
    ELSE IF ~exists(f, context_dir) /\ ~mkdir_ok
    THEN [fs |-> f, exc |-> "ContextDirectoryCreationFailure"]
    ELSE write_files([f EXCEPT ![context_dir] = Dir], context_dir,
                     <<<<"Containerfile", containerfile>>>>
                     \o (IF files.is_none THEN <<>> ELSE files.items),
                     fail_at, truncated)

ContextAuxFiles ==
    [is_none |-> FALSE, items |-> <<<<_ENTRYPOINT_SCRIPT_NAME, _ENTRYPOINT_SCRIPT>>>>]

\* PACKAGES appended only for a non-empty string (if packages:)
build_cmd_if_truthy(profile, packages, files_dir, extra_name) ==
    <<"make", "image", "PROFILE=" \o profile, "BIN_DIR=/openwrt/result">>
    \o (IF packages # None /\ packages # "" THEN <<"PACKAGES=" \o packages>> ELSE <<>>)
    \o (IF files_dir # None THEN <<"FILES=/openwrt/files">> ELSE <<>>)
    \o (IF extra_name # None THEN <<"EXTRA_IMAGE_NAME=" \o extra_name>> ELSE <<>>)

\* EXTRA_IMAGE_NAME appended before FILES
build_cmd_extra_first(profile, packages, files_dir, extra_name) ==
    <<"make", "image", "PROFILE=" \o profile, "BIN_DIR=/openwrt/result">>
    \o (IF packages # None THEN <<"PACKAGES=" \o packages>> ELSE <<>>)
    \o (IF extra_name # None THEN <<"EXTRA_IMAGE_NAME=" \o extra_name>> ELSE <<>>)
    \o (IF files_dir # None THEN <<"FILES=/openwrt/files">> ELSE <<>>)

\* Builder.build_firmware: the build command
build_cmd(profile, packages, files_dir, extra_name) ==
    <<"make", "image", "PROFILE=" \o profile, "BIN_DIR=/openwrt/result">>
    \o (IF packages # None THEN <<"PACKAGES=" \o packages>> ELSE <<>>)
    \o (IF files_dir # None THEN <<"FILES=/openwrt/files">> ELSE <<>>)
    \o (IF extra_name # None THEN <<"EXTRA_IMAGE_NAME=" \o extra_name>> ELSE <<>>)


\* config default (schemas.py Config.openwrt_base_url, main.build)
openwrt_base_url == "https://downloads.openwrt.org/"

\* Builder._retrieve_builder_archive: urljoin(base, releases/.../archive)
archive_url(version, target, sub_target) ==
    openwrt_base_url \o "releases/" \o version \o "/targets/" \o target \o "/"
    \o sub_target \o "/" \o archive_file_name(version, target, sub_target)

\* build_firmware with the archive retrieved before the builder context is
\* prepared
next_step_fetch_before_prepare(step, needed) ==
    CASE step = "BaseCheck" -> IF needed THEN "BasePrepare" ELSE "BuilderCheck"
      [] step = "BasePrepare" -> "BaseCreate"
      [] step = "BaseCreate" -> "BuilderCheck"
      [] step = "BuilderCheck" -> IF needed THEN "ArchiveFetch" ELSE "FirmwareBuild"
      [] step = "ArchiveFetch" -> "BuilderPrepare"
      [] step = "BuilderPrepare" -> "BuilderCreate"
      [] step = "BuilderCreate" -> "FirmwareBuild"
      [] OTHER -> "terminated"

\* build_firmware that goes on to the builder tier without building an
\* absent base image
next_step_skips_base_build(step, needed) ==
    CASE step = "BaseCheck" -> "BuilderCheck"
      [] step = "BasePrepare" -> "BaseCreate"
      [] step = "BaseCreate" -> "BuilderCheck"
      [] step = "BuilderCheck" -> IF needed THEN "BuilderPrepare" ELSE "FirmwareBuild"
      [] step = "BuilderPrepare" -> "ArchiveFetch"
      [] step = "ArchiveFetch" -> "BuilderCreate"
      [] step = "BuilderCreate" -> "FirmwareBuild"
      [] OTHER -> "terminated"

\* build_firmware without its self._retrieve_builder_archive() call
next_step_skips_fetch(step, needed) ==
    CASE step = "BaseCheck" -> IF needed THEN "BasePrepare" ELSE "BuilderCheck"
      [] step = "BasePrepare" -> "BaseCreate"
      [] step = "BaseCreate" -> "BuilderCheck"
      [] step = "BuilderCheck" -> IF needed THEN "BuilderPrepare" ELSE "FirmwareBuild"
      [] step = "BuilderPrepare" -> "BuilderCreate"
      [] step = "ArchiveFetch" -> "BuilderCreate"
      [] step = "BuilderCreate" -> "FirmwareBuild"
      [] OTHER -> "terminated"

\* Builder.build_firmware: the step that follows `step` once it returned;
\* needed is what the tier's _*_image_build_needed() returned
next_step(step, needed) ==
    CASE step = "BaseCheck" -> IF needed THEN "BasePrepare" ELSE "BuilderCheck"
      [] step = "BasePrepare" -> "BaseCreate"
      [] step = "BaseCreate" -> "BuilderCheck"
      [] step = "BuilderCheck" -> IF needed THEN "BuilderPrepare" ELSE "FirmwareBuild"
      [] step = "BuilderPrepare" -> "ArchiveFetch"
      [] step = "ArchiveFetch" -> "BuilderCreate"
      [] step = "BuilderCreate" -> "FirmwareBuild"
      [] OTHER -> "terminated"

\* a fetcher that takes every archive for staged
archive_download_never(f, builder_archive_path) == FALSE

\* a fetcher that downloads whether or not the archive is staged
archive_download_always(f, builder_archive_path) == TRUE

\* Builder._retrieve_builder_archive: if builder_archive.exists(): return
archive_download_needed(f, builder_archive_path) == ~exists(f, builder_archive_path)

\* ------------------------------------------------------------------ state
\* the values of the variables a specification does not use
NoTree == <<>>
NoCalls == <<>>
NoCalc == <<>>

IdlePipe ==
    [pc |-> "idle", runs |-> 0,
     version |-> "", target |-> "", sub_target |-> "", profile |-> "",
     output_dir |-> "", packages |-> None, files_dir |-> None, extra_name |-> None,
     delta |-> NoDelta,
     base_check |-> "unset", builder_check |-> "unset",
     trace |-> <<>>, calls |-> <<>>, outcome |-> None,
     build_cmd |-> <<>>, mounts |-> <<>>, container_runs |-> <<>>,
     blocks |-> 0, archive_skipped |-> FALSE, gets_total |-> 0,
     all_absent_at_start |-> FALSE, ext_ok |-> TRUE,
     overwrote |-> {}, get_response |-> None, prev_get_response |-> None]

CtxStates == {"absent", "notdir", "empty", "stale"}

Init ==
    /\ images \in SUBSET AllTags
    /\ \E st \in [ContextDirs -> CtxStates], ar \in SUBSET Archives :
        /\ \A a \in ar : st[ParentOf(a)] \in {"empty", "stale"}
        /\ fs = [path \in Paths |->
                    IF path \in ContextDirs
                    THEN CASE st[path] = "absent" -> Absent
                           [] st[path] = "notdir" -> File("stale")
                           [] OTHER -> Dir
                    ELSE IF path \in Archives
                    THEN IF path \in ar THEN File(ArchiveBody) ELSE Absent
                    ELSE IF st[ParentOf(path)] = "stale"
                    THEN File("stale") ELSE Absent]
    /\ pipe = [p \in Pipelines |-> IdlePipe]
    /\ tree = NoTree
    /\ mat = NoCalls
    /\ calc = NoCalc

\* the paths that held something before a step and hold something else after
Overwritten(before, after) ==
    {path \in Paths : exists(before, path) /\ after[path] # before[path]}

\* an exception leaves build_firmware: the run is over
Raise(me, exc) == [me EXCEPT !.pc = "terminated", !.outcome = exc]

my_builder_tag(me) == builder_image_tag(me.version, me.target, me.sub_target)
my_builder_context(me) ==
    builder_context_dir(work_dir, me.version, me.target, me.sub_target)
my_archive(me) == builder_archive(work_dir, me.version, me.target, me.sub_target)

\* main.build: one firmware of the manifest (of this invocation of the
\* program or of a later one); a PodmanBuilder is constructed and
\* build_firmware(output_dir, packages, files_dir, extra_name) is called
Begin(p, t, profile, delta, output_dir, files_dir, extra_name) ==
    /\ pipe[p].pc \in {"idle", "terminated"}
    /\ pipe' = [pipe EXCEPT ![p] =
            [IdlePipe EXCEPT
                !.pc = "BaseCheck", !.runs = pipe[p].runs + 1,
                !.gets_total = pipe[p].gets_total,
                !.prev_get_response = pipe[p].get_response,
                !.version = t[1], !.target = t[2], !.sub_target = t[3],
                !.profile = profile, !.output_dir = output_dir,
                !.delta = delta, !.packages = packages_argument(delta),
                !.files_dir = files_dir, !.extra_name = extra_name,
                !.all_absent_at_start =
                    /\ _BASE_IMAGE_TAG \notin images
                    /\ builder_image_tag(t[1], t[2], t[3]) \notin images
                    /\ ~exists(fs, builder_archive(work_dir, t[1], t[2], t[3]))]]
    /\ UNCHANGED <<images, fs, files_vars, calc>>

Start(p) ==
    /\ pipe[p].runs < MaxRuns
    /\ \E t \in Tiers, profile \in Profiles, delta \in PackageDeltas,
          output_dir \in OutputDirs, files_dir \in FilesDirs,
          extra_name \in ExtraNames :
        Begin(p, t, profile, delta, output_dir, files_dir, extra_name)

\* build_firmware: if self._base_image_build_needed()
BaseCheck(p) ==
    /\ pipe[p].pc = "BaseCheck"
    /\ \E response \in {"answer", "RequestException"} :
        LET me == pipe[p]
            r == _base_image_build_needed(images, response)
            called == [me EXCEPT !.trace = Append(@, "BaseCheck"),
                                 !.calls = Append(@, <<"imageExists", _BASE_IMAGE_TAG>>),
                                 !.ext_ok = @ /\ response = "answer"]
        IN  /\ images' = r.images
            /\ pipe' = [pipe EXCEPT ![p] =
                    IF r.exc # None THEN Raise(called, r.exc)
                    ELSE [called EXCEPT
                            !.base_check = IF _BASE_IMAGE_TAG \in images
                                           THEN "exists" ELSE "absent",
                            !.pc = next_step("BaseCheck", r.value)]]
    /\ UNCHANGED <<fs, files_vars, calc>>

\* build_firmware: self._prepare_base_context()
BasePrepare(p) ==
    /\ pipe[p].pc = "BasePrepare"
    /\ \E mkdir_ok \in BOOLEAN, fail_at \in 0..2, truncated \in BOOLEAN :
        LET me == pipe[p]
            r == _prepare_context_dir(fs, base_context_dir(work_dir),
                                      _BASE_CONTAINERFILE, ContextAuxFiles,
                                      mkdir_ok, fail_at, truncated)
            entered == [me EXCEPT !.trace = Append(@, "BasePrepare"),
                                  !.ext_ok = @ /\ r.exc = None,
                                  !.overwrote = @ \cup Overwritten(fs, r.fs)]
        IN  /\ fs' = r.fs
            /\ pipe' = [pipe EXCEPT ![p] =
                    IF r.exc # None THEN Raise(entered, r.exc)
                    ELSE [entered EXCEPT !.pc = next_step("BasePrepare", TRUE)]]
    /\ UNCHANGED <<images, files_vars, calc>>

\* build_firmware: self._create_base_image()
BaseCreate(p) ==
    /\ pipe[p].pc = "BaseCreate"
    /\ \E result \in {"ok", "BuildError", "APIError"} :
        LET me == pipe[p]
            exc == _create_image_raises(result, "BaseImageBuildFailure")
            called == [me EXCEPT !.trace = Append(@, "BaseCreate"),
                                 !.calls = Append(@, <<"buildImage", _BASE_IMAGE_TAG>>),
                                 !.ext_ok = @ /\ result = "ok"]
        IN  /\ images' = IF result = "ok" THEN images \cup {_BASE_IMAGE_TAG} ELSE images
            /\ pipe' = [pipe EXCEPT ![p] =
                    IF exc # None THEN Raise(called, exc)
                    ELSE [called EXCEPT !.pc = next_step("BaseCreate", TRUE)]]
    /\ UNCHANGED <<fs, files_vars, calc>>

\* build_firmware: if self._builder_image_build_needed()
BuilderCheck(p) ==
    /\ pipe[p].pc = "BuilderCheck"
    /\ \E response \in {"answer", "RequestException"} :
        LET me == pipe[p]
            r == _builder_image_build_needed(images, my_builder_tag(me), response)
            called == [me EXCEPT !.trace = Append(@, "BuilderCheck"),
                                 !.calls = Append(@, <<"imageExists", my_builder_tag(me)>>),
                                 !.ext_ok = @ /\ response = "answer"]
        IN  /\ images' = r.images
            /\ pipe' = [pipe EXCEPT ![p] =
                    IF r.exc # None THEN Raise(called, r.exc)
                    ELSE [called EXCEPT
                            !.builder_check = IF my_builder_tag(me) \in images
                                              THEN "exists" ELSE "absent",
                            !.pc = next_step("BuilderCheck", r.value)]]
    /\ UNCHANGED <<fs, files_vars, calc>>

\* build_firmware: self._prepare_builder_context()
BuilderPrepare(p) ==
    /\ pipe[p].pc = "BuilderPrepare"
    /\ \E mkdir_ok \in BOOLEAN, fail_at \in 0..2, truncated \in BOOLEAN :
        LET me == pipe[p]
            r == _prepare_context_dir(fs, my_builder_context(me),
                    builder_containerfile(me.version, me.target, me.sub_target),
                    ContextAuxFiles, mkdir_ok, fail_at, truncated)
            entered == [me EXCEPT !.trace = Append(@, "BuilderPrepare"),
                                  !.ext_ok = @ /\ r.exc = None,
                                  !.overwrote = @ \cup Overwritten(fs, r.fs)]
        IN  /\ fs' = r.fs
            /\ pipe' = [pipe EXCEPT ![p] =
                    IF r.exc # None THEN Raise(entered, r.exc)
                    ELSE [entered EXCEPT !.pc = next_step("BuilderPrepare", TRUE)]]
    /\ UNCHANGED <<images, files_vars, calc>>


\* _retrieve_builder_archive: the presence test and requests.get(url)
ArchiveFetch(p) ==
    /\ pipe[p].pc = "ArchiveFetch"
    /\ \E response \in {"ok", "not_ok", "RequestException"} :
        LET me == pipe[p]
            entered == [me EXCEPT !.trace = Append(@, "ArchiveFetch")]
            got == [entered EXCEPT
                        !.calls = Append(@, <<"GET", archive_url(me.version, me.target,
                                                                   me.sub_target)>>),
                        !.gets_total = @ + 1,
                        !.get_response = response,
                        !.ext_ok = @ /\ response = "ok"]
        IN  pipe' = [pipe EXCEPT ![p] =
                IF ~archive_download_needed(fs, my_archive(me))
                THEN [entered EXCEPT !.pc = next_step("ArchiveFetch", TRUE),
                                     !.archive_skipped = TRUE]
                ELSE IF response = "RequestException" THEN Raise(got, "RequestException")
                ELSE IF response = "ok" THEN [got EXCEPT !.pc = "ArchiveOpen"]
                ELSE Raise(got, "ImageBuilderRetrievalFailure")]
    /\ UNCHANGED <<images, fs, files_vars, calc>>

\* _retrieve_builder_archive: open(builder_archive, "wb")
ArchiveOpen(p) ==
    /\ pipe[p].pc = "ArchiveOpen"
    /\ \E open_ok \in BOOLEAN :
        LET me == pipe[p]
        IN  IF open_ok
            THEN /\ fs' = [fs EXCEPT ![my_archive(me)] = File("")]
                 /\ pipe' = [pipe EXCEPT ![p] =
                        [me EXCEPT !.pc = "ArchiveWrite", !.blocks = 0]]
            ELSE /\ fs' = fs
                 /\ pipe' = [pipe EXCEPT ![p] =
                        Raise([me EXCEPT !.ext_ok = FALSE], "OSError")]
    /\ UNCHANGED <<images, files_vars, calc>>

\* _retrieve_builder_archive: one block of res.iter_content(1024) written
\* and flushed; after the last one the file is closed and the call returns
ArchiveWrite(p) ==
    /\ pipe[p].pc = "ArchiveWrite"
    /\ pipe[p].blocks < NumBlocks
    /\ \E write_ok \in BOOLEAN :
        LET me == pipe[p]
        IN  IF write_ok
            THEN /\ fs' = [fs EXCEPT ![my_archive(me)] = File(@.contents \o "#")]
                 /\ pipe' = [pipe EXCEPT ![p] =
                        [me EXCEPT !.blocks = @ + 1,
                                   !.pc = IF me.blocks + 1 = NumBlocks
                                          THEN next_step("ArchiveFetch", TRUE)
                                          ELSE "ArchiveWrite"]]
            ELSE /\ fs' = fs
                 /\ pipe' = [pipe EXCEPT ![p] =
                        Raise([me EXCEPT !.ext_ok = FALSE], "OSError")]
    /\ UNCHANGED <<images, files_vars, calc>>

\* build_firmware: self._create_builder_image()
BuilderCreate(p) ==
    /\ pipe[p].pc = "BuilderCreate"
    /\ \E result \in {"ok", "BuildError", "APIError"} :
        LET me == pipe[p]
            exc == _create_image_raises(result, "BuilderImageBuildFailure")
            called == [me EXCEPT !.trace = Append(@, "BuilderCreate"),
                                 !.calls = Append(@, <<"buildImage", my_builder_tag(me)>>),
                                 !.ext_ok = @ /\ result = "ok"]
        IN  /\ images' = IF result = "ok" THEN images \cup {my_builder_tag(me)}
                         ELSE images
            /\ pipe' = [pipe EXCEPT ![p] =
                    IF exc # None THEN Raise(called, exc)
                    ELSE [called EXCEPT !.pc = next_step("BuilderCreate", TRUE)]]
    /\ UNCHANGED <<fs, files_vars, calc>>

\* build_firmware: build_cmd is put together and self._build_firmware(
\* build_cmd, output_dir, files_dir) is called
FirmwareBuild(p) ==
    /\ pipe[p].pc = "FirmwareBuild"
    /\ \E result \in {"ok", "ContainerError", "ImageNotFound", "APIError"} :
        LET me == pipe[p]
            cmd == build_cmd(me.profile, me.packages, me.files_dir, me.extra_name)
            mounts == firmware_mounts(me.output_dir, me.files_dir)
            entered == [me EXCEPT !.trace = Append(@, "FirmwareBuild"),
                                  !.build_cmd = cmd, !.mounts = mounts]
            \* logger.info("Starting firmware build ...") precedes the run
            started == logger_call(podman_logger)
            ran == [entered EXCEPT
                        !.calls = Append(@, <<"runContainer", my_builder_tag(me)>>),
                        !.container_runs =
                            Append(@, containers_run_call(my_builder_tag(me), mounts, cmd)),
                        !.ext_ok = @ /\ result = "ok"]
            exc == _build_firmware_raises(result)
        IN  pipe' = [pipe EXCEPT ![p] =
                IF started # None THEN Raise(entered, started)
                ELSE IF exc # None THEN Raise(ran, exc)
                ELSE [ran EXCEPT !.pc = next_step("FirmwareBuild", TRUE),
                                 !.outcome = "Done"]]
    /\ UNCHANGED <<images, fs, files_vars, calc>>

Step(p) ==
    \/ Start(p)
    \/ BaseCheck(p)
    \/ BasePrepare(p)
    \/ BaseCreate(p)
    \/ BuilderCheck(p)
    \/ BuilderPrepare(p)
    \/ ArchiveFetch(p)
    \/ ArchiveOpen(p)
    \/ ArchiveWrite(p)
    \/ BuilderCreate(p)
    \/ FirmwareBuild(p)

\* one pipeline, its runs one after the other (main.build's loop)
Next == Step(1)

Spec == Init /\ [][Next]_vars

\* ------------------------------------------------------ concurrent pipelines
\* Two workers run build_firmware for the same tier on one work directory and
\* one image store, their steps interleaved in any order (an external
\* scheduler running two BuildSpecs of a manifest in parallel); the store
\* and the work directory start empty.
InitRace ==
    /\ Init
    /\ images = {}
    /\ \A path \in Paths : fs[path] = Absent

StartRace(p) ==
    /\ pipe[p].runs < MaxRaceRuns
    /\ \E t \in Tiers :
        Begin(p, t, "generic", NoDelta, "build/firmware", None, None)

NextRace ==
    \E p \in Pipelines :
        \/ StartRace(p)
        \/ BaseCheck(p)
        \/ BasePrepare(p)
        \/ BaseCreate(p)
        \/ BuilderCheck(p)
        \/ BuilderPrepare(p)
        \/ ArchiveFetch(p)
        \/ ArchiveOpen(p)
        \/ ArchiveWrite(p)
        \/ BuilderCreate(p)
        \/ FirmwareBuild(p)

SpecRace == InitRace /\ [][NextRace]_vars


\* ======================================== materialization of a files directory
\* A pathlib.Path is modelled by its parts, and a str that the code splits
\* into lines by the sequence s.split("\n") (the empty str is <<"">>).

\* the files directory handed to the materializers (main.build: base_dir /
\* "files") and the output directory (base_dir / "firmware"), as parts below
\* base_dir; base_dir itself is <<>>
FilesDir == <<"files">>
OutputDir == <<"firmware">>

\* netjsonconfig.backends.openwrt.parser.config_path ('etc/config/') as parts
config_path == <<"etc", "config">>

\* path.parents[0]
Parent(path) == SubSeq(path, 1, Len(path) - 1)
Prefixes(path) == {SubSeq(path, 1, k) : k \in 1..Len(path)}

\* FileContentsSpec / a files dict of the manifest; path is Path(path).parts
FileEntry(parts, contents) == [path |-> parts, contents |-> contents]
Entries ==
    {FileEntry(<<"/", "etc", "config", "network">>, "literal network"),
     FileEntry(<<"/", "etc", "config", "wireless">>, "literal wireless"),
     FileEntry(<<"/", "a">>, "literal a"),
     FileEntry(<<"/", "..", "outside", "x">>, "literal outside")}

\* the lists of at most n elements of a set
RECURSIVE ListsOf(_, _)
ListsOf(set, n) ==
    IF n = 0 THEN {<<>>}
    ELSE LET shorter == ListsOf(set, n - 1)
         IN  shorter \cup {Append(l, e) : l \in shorter, e \in set}
FileLists == {l \in ListsOf(Entries, MaxEntries) :
                \A i, j \in DOMAIN l : i # j => l[i] # l[j]}

\* a NetJSON configuration as the packages it renders to: name and body, the
\* body being the lines of the package's config blocks
ConfigPackage(name, body) == [name |-> name, body |-> body]
ConfigPackages ==
    {ConfigPackage("network", <<"config interface 'lan'", "\toption proto 'dhcp'", "">>),
     ConfigPackage("wireless", <<"config wifi-device 'radio0'", "">>)}
Configs == {l \in ListsOf(ConfigPackages, MaxSections) :
                /\ l # <<>>
                /\ \A i, j \in DOMAIN l : i # j => l[i] # l[j]}

\* a line of the rendered text: "package <text>" if header, else text
Header(name) == [header |-> TRUE, text |-> name]
Line(text) == [header |-> FALSE, text |-> text]

RECURSIVE render(_)
\* OpenWrt.render(files=False): per package a "package <name>" line, a blank
\* line and the body; the text as its newline-terminated lines
render(config) ==
    IF config = <<>> THEN <<>>
    ELSE <<Header(config[1].name), Line("")>>
         \o [i \in 1..Len(config[1].body) |-> Line(config[1].body[i])]
         \o render(Tail(config))

\* the first header line of uci at or after i, Len(uci) + 1 if there is none
NextHeader(uci, i) ==
    IF \E j \in i..Len(uci) : uci[j].header
    THEN CHOOSE j \in i..Len(uci) :
            /\ uci[j].header
            /\ \A k \in i..(j - 1) : ~uci[k].header
    ELSE Len(uci) + 1

RECURSIVE pieces_from(_, _)
\* the pieces that start at the header line i and at the headers after it;
\* a piece is what follows "package " up to the next match, split into lines
pieces_from(uci, i) ==
    IF i > Len(uci) THEN <<>>
    ELSE LET j == NextHeader(uci, i + 1)
         IN  <<(<<uci[i].text>> \o [k \in 1..(j - i - 1) |-> uci[i + k].text] \o <<"">>)>>
             \o pieces_from(uci, j)

\* packages_pattern.split(uci), packages_pattern being ^package\s (MULTILINE)
packages_pattern_split(uci) ==
    LET h == NextHeader(uci, 1)
    IN  <<([k \in 1..(h - 1) |-> uci[k].text] \o <<"">>)>> \o pieces_from(uci, h)

RECURSIVE list_remove(_, _)
\* list.remove(x): the first occurrence goes
list_remove(list, x) ==
    IF list = <<>> THEN <<>>
    ELSE IF list[1] = x THEN Tail(list)
    ELSE <<list[1]>> \o list_remove(Tail(list), x)

\* lines[2:] joined by "\n"
package_contents(lines) == str_join("\n", SubSeq(lines, 3, Len(lines)))

RECURSIVE resolve(_)
\* the path the operating system follows a path to: a ".." component leaves
\* the directory before it (every ".." of an entry follows a directory that
\* exists, the files directory)
resolve(path) ==
    IF path = <<>> THEN <<>>
    ELSE LET front == resolve(Parent(path))
             name == path[Len(path)]
         IN  IF name = ".." THEN (IF front = <<>> THEN <<>> ELSE Parent(front))
             ELSE Append(front, name)

\* archive_dir / (archive_name + ".tar.gz")
tarball_path(archive_dir, archive_name) == Append(archive_dir, archive_name \o ".tar.gz")

\* every path a materializer can touch
TargetOf(entry) == FilesDir \o Tail(entry.path)
ConfigTarget(name) == FilesDir \o config_path \o <<name>>
TreePaths ==
    UNION {Prefixes(resolve(TargetOf(e))) : e \in Entries}
    \cup UNION {Prefixes(ConfigTarget(c.name)) : c \in ConfigPackages}
    \cup Prefixes(tarball_path(OutputDir, "config"))
    \cup {<<>>}

\* Path(path).relative_to("/")
relative_to_root(parts) ==
    IF parts # <<>> /\ parts[1] = "/"
    THEN [exc |-> None, value |-> Tail(parts)]
    ELSE [exc |-> "ValueError", value |-> <<>>]

\* parent.mkdir(parents=True) with exist_ok left False; os_ok: the operating
\* system lets the directories be made
mkdir_parents(t, path, os_ok) ==
    IF exists(t, path) THEN [tree |-> t, exc |-> "FileExistsError"]
    ELSE IF \E q \in Prefixes(path) : exists(t, q) /\ ~is_dir(t, q)
    THEN [tree |-> t, exc |-> "NotADirectoryError"]
    ELSE IF ~os_ok THEN [tree |-> t, exc |-> "PermissionError"]
    ELSE [tree |-> [q \in DOMAIN t |-> IF q \in Prefixes(path) THEN Dir ELSE t[q]],
          exc |-> None]

\* a materializer that replaces what is at the target: no existence test,
\* parents made with exist_ok
write_new_file_overwrites(t, path, contents, io, write_exc) ==
    IF io = "mkdir" THEN [tree |-> t, exc |-> "ConfigCreationError"]
    ELSE IF io = "open" THEN [tree |-> t, exc |-> write_exc]
    ELSE [tree |-> [q \in DOMAIN t |->
                        IF q = resolve(path)
                        THEN File(IF io = "write" THEN "" ELSE contents)
                        ELSE IF q \in Prefixes(resolve(path)) THEN Dir ELSE t[q]],
          exc |-> IF io = "write" THEN write_exc ELSE None]

\* the body shared by the three materializers: if path.exists(): raise;
\* parent.mkdir(parents=True); open(path, "w") and write.  io is the step
\* the operating system fails ("ok": none), write_exc what an IOError of
\* open/write is raised as
write_new_file(t, path, contents, io, write_exc) ==
    LET target == resolve(path)
    IN  IF exists(t, target) THEN [tree |-> t, exc |-> "ConfigCreationError"]
        ELSE LET made == mkdir_parents(t, resolve(Parent(path)), io # "mkdir")
             IN  IF made.exc # None THEN [tree |-> t, exc |-> "ConfigCreationError"]
                 ELSE IF io = "open" THEN [tree |-> made.tree, exc |-> write_exc]
                 ELSE IF io = "write"
                 THEN [tree |-> [made.tree EXCEPT ![target] = File("")], exc |-> write_exc]
                 ELSE [tree |-> [made.tree EXCEPT ![target] = File(contents)],
                       exc |-> None]

\* the result of a materializer call: the tree it leaves, the exception that
\* left it (or None), the targets its loop got to, in order, and whether the
\* configuration was rendered
Returned(t, attempted) ==
    [tree |-> t, exc |-> None, attempted |-> attempted, rendered |-> FALSE]
Raised(t, exc, attempted) ==
    [tree |-> t, exc |-> exc, attempted |-> attempted, rendered |-> FALSE]

RECURSIVE create_files_loop_goes_on(_, _, _, _, _, _)
\* a loop that, after the entry that fails, still writes the entries after it
create_files_loop_goes_on(t, files_dir, files, fail_at, io, attempted) ==
    IF files = <<>> THEN Returned(t, attempted)
    ELSE LET rel == relative_to_root(files[1].path)
             path == files_dir \o rel.value
             r == write_new_file(t, path, files[1].contents,
                                 IF fail_at = 1 THEN io ELSE "ok", "OSError")
             rest == create_files_loop_goes_on(r.tree, files_dir, Tail(files),
                                               IF fail_at = 0 THEN 0 ELSE fail_at - 1, io,
                                               Append(attempted, path))
         IN  IF rel.exc # None THEN Raised(t, rel.exc, attempted)
             ELSE IF r.exc # None THEN Raised(rest.tree, r.exc, Append(attempted, path))
             ELSE rest

RECURSIVE create_files_loop(_, _, _, _, _, _)
\* main.create_files / utils.create_files: for file in files; the fail_at-th
\* entry (0: none) meets the operating-system failure io
create_files_loop(t, files_dir, files, fail_at, io, attempted) ==
    IF files = <<>> THEN Returned(t, attempted)
    ELSE LET rel == relative_to_root(files[1].path)
             path == files_dir \o rel.value
             r == write_new_file(t, path, files[1].contents,
                                 IF fail_at = 1 THEN io ELSE "ok", "OSError")
         IN  IF rel.exc # None THEN Raised(t, rel.exc, attempted)
             ELSE IF r.exc # None THEN Raised(r.tree, r.exc, Append(attempted, path))
             ELSE create_files_loop(r.tree, files_dir, Tail(files),
                                    IF fail_at = 0 THEN 0 ELSE fail_at - 1, io,
                                    Append(attempted, path))

\* main.create_files(files, files_dir) (utils.create_files is the same code)
create_files(t, files, files_dir, fail_at, io) ==
    IF ~is_dir(t, files_dir) THEN Raised(t, "ConfigCreationError", <<>>)
    ELSE create_files_loop(t, files_dir, files, fail_at, io, <<>>)

\* FileContentsSpec.create_file_at_location(location)
create_file_at_location(t, self, location, io) ==
    IF ~is_dir(t, location) THEN Raised(t, "ConfigCreationError", <<>>)
    ELSE LET rel == relative_to_root(self.path)
             full_path == location \o rel.value
             r == write_new_file(t, full_path, self.contents, io, "ConfigCreationError")
         IN  IF rel.exc # None THEN Raised(t, rel.exc, <<>>)
             ELSE [tree |-> r.tree, exc |-> r.exc, attempted |-> <<full_path>>,
                   rendered |-> FALSE]

RECURSIVE create_file_tree_at_location(_, _, _, _, _, _)
\* FirmwareSpecification.create_file_tree_at_location(location): each file_
\* of self.files in turn, a ConfigCreationError re-raised
create_file_tree_at_location(t, files, location, fail_at, io, attempted) ==
    IF files = <<>> THEN Returned(t, attempted)
    ELSE LET r == create_file_at_location(t, files[1], location,
                                          IF fail_at = 1 THEN io ELSE "ok")
         IN  IF r.exc # None THEN Raised(r.tree, r.exc, attempted \o r.attempted)
             ELSE create_file_tree_at_location(r.tree, Tail(files), location,
                                               IF fail_at = 0 THEN 0 ELSE fail_at - 1,
                                               io, attempted \o r.attempted)

RECURSIVE config_packages_loop(_, _, _, _, _, _)
\* OpenWrtConfig.create_files: for package in packages
config_packages_loop(t, files_dir, packages, fail_at, io, attempted) ==
    IF packages = <<>> THEN Returned(t, attempted)
    ELSE LET lines == packages[1]
             package_name == lines[1]
             contents == package_contents(lines)
             path == files_dir \o config_path \o <<package_name>>
             r == write_new_file(t, path, contents,
                                 IF fail_at = 1 THEN io ELSE "ok", "ConfigCreationError")
         IN  IF r.exc # None THEN Raised(r.tree, r.exc, Append(attempted, path))
             ELSE config_packages_loop(r.tree, files_dir, Tail(packages),
                                       IF fail_at = 0 THEN 0 ELSE fail_at - 1, io,
                                       Append(attempted, path))

\* a config materializer that renders and writes without validating
config_create_files_unvalidated(t, config, valid, files_dir, fail_at, io) ==
    IF ~is_dir(t, files_dir) THEN Raised(t, "ConfigCreationError", <<>>)
    ELSE LET split == packages_pattern_split(render(config))
             packages == IF <<"">> \in Range(split) THEN list_remove(split, <<"">>)
                         ELSE split
         IN  [config_packages_loop(t, files_dir, packages, fail_at, io, <<>>)
                EXCEPT !.rendered = TRUE]

\* OpenWrtConfig.create_files(files_dir); valid: self.validate() passes
config_create_files(t, config, valid, files_dir, fail_at, io) ==
    IF ~valid THEN Raised(t, "ConfigCreationError", <<>>)
    ELSE IF ~is_dir(t, files_dir) THEN Raised(t, "ConfigCreationError", <<>>)
    ELSE LET uci == render(config)
             split == packages_pattern_split(uci)
             packages == IF <<"">> \in Range(split) THEN list_remove(split, <<"">>)
                         ELSE split
         IN  [config_packages_loop(t, files_dir, packages, fail_at, io, <<>>)
                EXCEPT !.rendered = TRUE]

\* OpenWrt.write(name, path): the configuration is rendered and packed into
\* path/name.tar.gz, which replaces what is there; write_ok: the operating
\* system lets the file be written
backend_write(t, config, name, path, write_ok) ==
    LET uci == render(config)
        text == str_join("\n", [i \in 1..Len(uci) |->
                    (IF uci[i].header THEN "package " ELSE "") \o uci[i].text])
        tarball == tarball_path(path, name)
    IN  IF write_ok
        THEN [tree |-> [t EXCEPT ![tarball] = File("tar:" \o text)], exc |-> None,
              attempted |-> <<tarball>>, rendered |-> TRUE]
        ELSE [tree |-> t, exc |-> "OSError", attempted |-> <<tarball>>,
              rendered |-> TRUE]

\* OpenWrtConfig.create_sysupgrade_tarball(archive_dir, archive_name)
create_sysupgrade_tarball(t, config, valid, archive_dir, archive_name, write_ok) ==
    IF ~valid THEN Raised(t, "ConfigCreationError", <<>>)
    ELSE IF ~is_dir(t, archive_dir) THEN Raised(t, "ConfigCreationError", <<>>)
    ELSE backend_write(t, config, archive_name, resolve(archive_dir), write_ok)

\* the states a files directory is found in: not there, freshly made, and
\* left by earlier materializations
TreeStates == {"absent", "empty", "config_dir", "populated"}
TreeOf(state) ==
    [path \in TreePaths |->
        CASE path = <<>> -> Dir
          [] state = "absent" -> Absent
          [] state = "empty" -> IF path \in {FilesDir, OutputDir} THEN Dir ELSE Absent
          [] state = "config_dir" ->
                IF path \in Prefixes(FilesDir \o config_path) \cup {OutputDir}
                THEN Dir ELSE Absent
          [] OTHER ->
                IF path \in Prefixes(FilesDir \o config_path) \cup {OutputDir} THEN Dir
                ELSE IF path = ConfigTarget("network") THEN File("old network")
                ELSE Absent]

\* a call of a materializer, as the record kept of it
Call(op, files, config, valid, before, io_ok, r) ==
    [op |-> op, files |-> files, config |-> config, valid |-> valid, before |-> before,
     io_ok |-> io_ok, exc |-> r.exc, attempted |-> r.attempted, rendered |-> r.rendered]

NoCall ==
    [op |-> "none", files |-> <<>>, config |-> <<>>, valid |-> TRUE, before |-> <<>>,
     io_ok |-> TRUE, exc |-> None, attempted |-> <<>>, rendered |-> FALSE]

\* mat: the number of calls made and the last of them
Made(call) == [n |-> mat.n + 1, last |-> call]

IoFailures == {"mkdir", "open", "write"}

InitFiles ==
    /\ tree \in {TreeOf(state) : state \in TreeStates}
    /\ mat = [n |-> 0, last |-> NoCall]
    /\ images = {}
    /\ fs = NoTree
    /\ pipe = NoCalls
    /\ calc = NoCalc

\* main.build: create_files(files, files_dir)
CreateFiles ==
    /\ mat.n < MaxCalls
    /\ \E files \in FileLists, fail_at \in 0..MaxEntries, io \in IoFailures \cup {"ok"} :
        /\ fail_at <= Len(files)
        /\ io = "ok" <=> fail_at = 0
        /\ LET r == create_files(tree, files, FilesDir, fail_at, io)
           IN  /\ tree' = r.tree
               /\ mat' = Made(Call("create_files", files, <<>>, TRUE, tree, fail_at = 0, r))
    /\ UNCHANGED <<pipeline_vars, calc>>

\* cli.build: firmware_specification.create_file_tree_at_location(files_dir)
CreateFileTree ==
    /\ mat.n < MaxCalls
    /\ \E files \in FileLists, fail_at \in 0..MaxEntries, io \in IoFailures \cup {"ok"} :
        /\ fail_at <= Len(files)
        /\ io = "ok" <=> fail_at = 0
        /\ LET r == create_file_tree_at_location(tree, files, FilesDir, fail_at, io, <<>>)
           IN  /\ tree' = r.tree
               /\ mat' = Made(Call("create_file_tree_at_location", files, <<>>, TRUE, tree,
                                        fail_at = 0, r))
    /\ UNCHANGED <<pipeline_vars, calc>>

\* main.build: cfg.create_files(files_dir)
ConfigCreateFiles ==
    /\ mat.n < MaxCalls
    /\ \E config \in Configs, valid \in BOOLEAN, fail_at \in 0..MaxSections,
          io \in IoFailures \cup {"ok"} :
        /\ fail_at <= Len(config)
        /\ io = "ok" <=> fail_at = 0
        /\ LET r == config_create_files(tree, config, valid, FilesDir, fail_at, io)
           IN  /\ tree' = r.tree
               /\ mat' = Made(Call("OpenWrtConfig.create_files", <<>>, config, valid,
                                        tree, fail_at = 0, r))
    /\ UNCHANGED <<pipeline_vars, calc>>

\* main.build: cfg.create_sysupgrade_tarball(output_dir)
ConfigCreateTarball ==
    /\ mat.n < MaxCalls
    /\ \E config \in Configs, valid \in BOOLEAN, write_ok \in BOOLEAN :
        LET r == create_sysupgrade_tarball(tree, config, valid, OutputDir, "config",
                                           write_ok)
        IN  /\ tree' = r.tree
            /\ mat' = Made(Call("OpenWrtConfig.create_sysupgrade_tarball", <<>>, config,
                                 valid, tree, write_ok, r))
    /\ UNCHANGED <<pipeline_vars, calc>>

NextFiles ==
    \/ CreateFiles
    \/ CreateFileTree
    \/ ConfigCreateFiles

\* materializer calls on one files directory, in any order
SpecFiles == InitFiles /\ [][NextFiles]_vars

NextConfig ==
    \/ ConfigCreateFiles
    \/ ConfigCreateTarball

\* main.build with a configuration: cfg.create_files and
\* cfg.create_sysupgrade_tarball, on directories found in any state
SpecConfig == InitFiles /\ [][NextConfig]_vars

\* ================================================= image tags of two BuildSpecs
\* strings a manifest can give as version, target or sub_target
Components == {"a", "c", "a-b", "b-c", "a/b", "b/c"}
BuildTiers == Components \X Components \X Components

\* Builder.__init__ for a (version, target, sub_target): the tags and the
\* context directories the Builder works with
builder_names(t) ==
    [base_tag |-> _BASE_IMAGE_TAG,
     builder_tag |-> builder_image_tag(t[1], t[2], t[3]),
     base_dir |-> base_context_dir(work_dir),
     builder_dir |-> builder_context_dir(work_dir, t[1], t[2], t[3])]

NoNames == [base_tag |-> "", builder_tag |-> "", base_dir |-> "", builder_dir |-> ""]

InitTags ==
    /\ calc \in {[fn |-> "Builder.__init__", a |-> a, b |-> b, done |-> FALSE,
                  names_a |-> NoNames, names_b |-> NoNames] :
                    a \in BuildTiers, b \in BuildTiers}
    /\ images = {}
    /\ fs = NoTree
    /\ pipe = NoCalls
    /\ tree = NoTree
    /\ mat = NoCalls

\* two Builders are constructed, one per BuildSpec
ConstructBuilders ==
    /\ ~calc.done
    /\ calc' = [calc EXCEPT !.done = TRUE,
                            !.names_a = builder_names(calc.a),
                            !.names_b = builder_names(calc.b)]
    /\ UNCHANGED <<pipeline_vars, files_vars>>

NextTags == ConstructBuilders

SpecTags == InitTags /\ [][NextTags]_vars

\* ======================================================= manifest validation
\* A dict is a function from its keys; d[k] raises KeyError for a key that is
\* not in DOMAIN d.

\* firmwares of a manifest: with and without name, differing in one field,
\* and one that lacks its version
BaseFirmware ==
    [target |-> "x86", sub_target |-> "64", profile |-> "generic", version |-> "23.05.0"]
Named(fw, name) ==
    [target |-> fw.target, sub_target |-> fw.sub_target, profile |-> fw.profile,
     version |-> fw.version, name |-> name]
FirmwareDicts ==
    {BaseFirmware,
     Named(BaseFirmware, "lab"),
     Named(BaseFirmware, "prod"),
     [BaseFirmware EXCEPT !.profile = "other"],
     [BaseFirmware EXCEPT !.version = "22.03.5"],
     [target |-> "x86", sub_target |-> "64", profile |-> "generic"]}

Manifests == {[firmwares |-> l] : l \in ListsOf(FirmwareDicts, MaxFirmwares)}

\* f.get(key, None)
dict_get(f, key) == IF key \in DOMAIN f THEN f[key] ELSE None

\* a key that leaves the name out
firmware_key_without_name(f) ==
    <<f["target"], f["sub_target"], f["profile"], f["version"], None>>

\* valid_manifest: the tuple built for a firmware
firmware_key(f) ==
    <<f["target"], f["sub_target"], f["profile"], f["version"], dict_get(f, "name")>>

RequiredFields == {"target", "sub_target", "profile", "version"}

RECURSIVE find_dupes(_, _)
\* set(f for f in firmwares if f in seen or seen.add(f))
find_dupes(firmwares, seen) ==
    IF firmwares = <<>> THEN {}
    ELSE IF firmwares[1] \in seen
    THEN {firmwares[1]} \cup find_dupes(Tail(firmwares), seen)
    ELSE find_dupes(Tail(firmwares), seen \cup {firmwares[1]})

\* valid_manifest(manifest)
valid_manifest(manifest) ==
    IF "firmwares" \notin DOMAIN manifest THEN FALSE
    ELSE IF \E i \in DOMAIN manifest.firmwares :
                ~(RequiredFields \subseteq DOMAIN manifest.firmwares[i])
    THEN FALSE
    ELSE LET firmwares == [i \in DOMAIN manifest.firmwares |->
                                firmware_key(manifest.firmwares[i])]
             dupes == find_dupes(firmwares, {})
         IN  ~(Cardinality(dupes) > 0)

\* main.build: base_dir of a firmware, as parts below build_dir
base_dir(fw) ==
    <<fw["target"], fw["sub_target"], fw["profile"]>>
    \o (IF dict_get(fw, "name") # None THEN <<fw["name"]>> ELSE <<>>)

\* main.build: [base_dir, files_dir, output_dir]
build_directories(fw) ==
    <<base_dir(fw), Append(base_dir(fw), "files"), Append(base_dir(fw), "firmware")>>

\* every path below build_dir the directories of a firmware can be at
BuildPaths ==
    UNION {Prefixes(build_directories(fw)[k]) :
                fw \in {f \in FirmwareDicts : RequiredFields \subseteq DOMAIN f},
                k \in 1..3}
    \cup {<<>>}

RECURSIVE make_directories(_, _, _)
\* main.build: for directory in [...]: directory.mkdir(parents=True); the
\* fail_at-th mkdir (0: none) is refused by the operating system
make_directories(t, directories, fail_at) ==
    IF directories = <<>> THEN [tree |-> t, exc |-> None]
    ELSE LET r == mkdir_parents(t, directories[1], fail_at # 1)
         IN  IF r.exc # None THEN r
             ELSE make_directories(r.tree, Tail(directories),
                                   IF fail_at = 0 THEN 0 ELSE fail_at - 1)

\* calc.made: the firmwares whose directories were made; calc.exit: the
\* exception whose errno the program exited with, or None.  tree is the
\* build directory tempfile.mkdtemp has just made.
InitManifest ==
    /\ calc \in {[fn |-> "valid_manifest", manifest |-> m, done |-> FALSE,
                  result |-> FALSE, made |-> 0, exit |-> None] : m \in Manifests}
    /\ images = {}
    /\ fs = NoTree
    /\ pipe = NoCalls
    /\ tree = [path \in BuildPaths |-> IF path = <<>> THEN Dir ELSE Absent]
    /\ mat = NoCalls

\* main.build: if not valid_manifest(manifest)
ValidateManifest ==
    /\ ~calc.done
    /\ calc' = [calc EXCEPT !.done = TRUE, !.result = valid_manifest(calc.manifest)]
    /\ UNCHANGED <<pipeline_vars, files_vars>>

\* main.build: the directories of the next firmware of an accepted manifest
\* are made (the builds of the firmwares before it have returned)
MakeDirectories ==
    /\ calc.done
    /\ calc.result
    /\ calc.exit = None
    /\ calc.made < Len(calc.manifest.firmwares)
    /\ \E fail_at \in 0..3 :
        LET fw == calc.manifest.firmwares[calc.made + 1]
            r == make_directories(tree, build_directories(fw), fail_at)
        IN  /\ tree' = r.tree
            /\ calc' = [calc EXCEPT !.made = IF r.exc = None THEN @ + 1 ELSE @,
                                    !.exit = r.exc]
    /\ UNCHANGED <<pipeline_vars, mat>>

NextManifest ==
    \/ ValidateManifest
    \/ MakeDirectories

SpecManifest == InitManifest /\ [][NextManifest]_vars

\* ================================================== package delta serializers
PackageLists == ListsOf({"a", "b", "c"}, MaxNames)

\* utils.create_package_list(packages: PackagesSpec)
utils_create_package_list(packages) ==
    LET packages_list ==
            packages.add \o [i \in 1..Len(packages.remove) |-> "-" \o packages.remove[i]]
    IN  str_join(" ", packages_list)

\* the packages dict of a manifest for an add list and a remove list; a value
\* is a list, or None for a key with nothing under it; shape is how an empty
\* list is written: as [], as a key without value, or not at all
PackagesDict(add, remove, shape) ==
    LET value(list) == [is_none |-> list = <<>> /\ shape = "none", items |-> list]
        keys == {k \in {"add", "remove"} :
                    ~(shape = "missing" /\ (IF k = "add" THEN add ELSE remove) = <<>>)}
    IN  [k \in keys |-> IF k = "add" THEN value(add) ELSE value(remove)]

\* main.create_package_list(packages: Dict[str, List])
main_create_package_list(packages) ==
    LET default == [is_none |-> FALSE, items |-> <<>>]
        got_add == IF "add" \in DOMAIN packages THEN packages["add"] ELSE default
        packages_add == IF got_add.is_none THEN <<>> ELSE got_add.items
        got_remove == IF "remove" \in DOMAIN packages THEN packages["remove"]
                      ELSE default
        packages_remove == IF got_remove.is_none THEN <<>> ELSE got_remove.items
        packages_list ==
            packages_add \o [i \in 1..Len(packages_remove) |-> "-" \o packages_remove[i]]
    IN  str_join(" ", packages_list)

InitPackages ==
    /\ calc \in {[fn |-> "create_package_list", add |-> a, remove |-> r, shape |-> sh,
                  done |-> FALSE, as_string |-> "", utils |-> "", main |-> ""] :
                    a \in PackageLists, r \in PackageLists,
                    sh \in {"list", "none", "missing"}}
    /\ images = {}
    /\ fs = NoTree
    /\ pipe = NoCalls
    /\ tree = NoTree
    /\ mat = NoCalls

\* the three serializers are called on the same lists
SerializePackages ==
    /\ ~calc.done
    /\ calc' = [calc EXCEPT
            !.done = TRUE,
            !.as_string = as_string(Delta(calc.add, calc.remove)),
            !.utils = utils_create_package_list(Delta(calc.add, calc.remove)),
            !.main = main_create_package_list(
                        PackagesDict(calc.add, calc.remove, calc.shape))]
    /\ UNCHANGED <<pipeline_vars, files_vars>>

SpecPackages == InitPackages /\ [][SerializePackages]_vars

\* ============================================================ the batch driver
\* a firmware of the manifest with or without a files and a config section
WithSections(fw, has_files, has_config) ==
    LET keys == DOMAIN fw \cup (IF has_files THEN {"files"} ELSE {})
                          \cup (IF has_config THEN {"config"} ELSE {})
    IN  [k \in keys |-> IF k \in DOMAIN fw THEN fw[k] ELSE "section"]

BatchFirmwares ==
    {WithSections(fw, has_files, has_config) :
        fw \in {BaseFirmware, Named(BaseFirmware, "lab"),
                [BaseFirmware EXCEPT !.version = "22.03.5"]},
        has_files \in BOOLEAN, has_config \in BOOLEAN}

\* what a call made by a step of main.build can end with (None: it returns).
\* "files": create_files; "config": cfg.create_files and
\* cfg.create_sysupgrade_tarball; "build": builder.build_firmware, which
\* with podman.py's logger unbound never returns
step_outcomes(step) ==
    CASE step = "files" -> {None, "ConfigCreationError", "OSError", "KeyError", "ValueError"}
      [] step = "config" -> {None, "ConfigCreationError", "OSError"}
      [] step = "build" ->
            IF logger_call(podman_logger) # None
            THEN {"AttributeError", "ContextDirectoryCreationFailure", "OSError",
                  "RequestException", "ImageBuilderRetrievalFailure"}
            ELSE {None, "PodmanException", "ContextDirectoryCreationFailure", "OSError",
                  "RequestException", "ImageBuilderRetrievalFailure",
                  "BaseImageBuildFailure", "BuilderImageBuildFailure",
                  "FirmwareBuildFailure"}

\* a driver that goes on to the next firmware after a build that failed
batch_exit_goes_on(step, exc) ==
    IF exc = None \/ step = "build" THEN None
    ELSE IF step = "validate" \/ step = "dirs" THEN "SystemExit"
    ELSE IF step = "files" /\ exc \in {"OSError", "KeyError", "ConfigCreationError"}
    THEN "SystemExit"
    ELSE IF step = "config" /\ exc = "ConfigCreationError" THEN "SystemExit"
    ELSE exc

\* main.build: what leaves build when a step ended with exc: sys.exit from
\* the step's except clause, or the exception itself where no clause
\* catches it; None when the step returned
batch_exit(step, exc) ==
    IF exc = None THEN None
    ELSE IF step = "validate" \/ step = "dirs" THEN "SystemExit"
    ELSE IF step = "files" /\ exc \in {"OSError", "KeyError", "ConfigCreationError"}
    THEN "SystemExit"
    ELSE IF step = "config" /\ exc = "ConfigCreationError" THEN "SystemExit"
    ELSE IF step = "build" /\ exc = "FirmwareBuildFailure" THEN "SystemExit"
    ELSE exc

\* calc after the step `step` of the current firmware ended with exc; next is
\* the step that follows it
Stepped(step, exc, next) ==
    [calc EXCEPT !.log = Append(@, <<calc.i, step, exc>>),
                 !.exit = batch_exit(step, exc),
                 !.pc = IF batch_exit(step, exc) = None THEN next ELSE "exited"]

\* for fw in firmwares: on to the next firmware, or out of the loop
NextFirmware(c) ==
    [c EXCEPT !.i = @ + 1,
              !.pc = IF c.i + 1 > Len(c.manifest.firmwares) THEN "done" ELSE "dirs"]

\* calc.log: the steps executed, each <<firmware index, step, exception or None>>
InitBatch ==
    /\ calc \in {[fn |-> "build", manifest |-> [firmwares |-> l], config_only |-> co,
                  pc |-> "validate", i |-> 0, log |-> <<>>, exit |-> None] :
                    l \in ListsOf(BatchFirmwares, MaxBatch), co \in BOOLEAN}
    /\ images = {}
    /\ fs = NoTree
    /\ pipe = NoCalls
    /\ tree = [path \in BuildPaths |-> IF path = <<>> THEN Dir ELSE Absent]
    /\ mat = NoCalls

\* main.build: if not valid_manifest(manifest): sys.exit(1)
DriverValidate ==
    /\ calc.pc = "validate"
    /\ calc' = IF valid_manifest(calc.manifest) THEN NextFirmware(calc)
               ELSE [calc EXCEPT !.pc = "exited",
                                 !.exit = batch_exit("validate", "invalid")]
    /\ UNCHANGED <<pipeline_vars, files_vars>>

\* main.build: for directory in [base_dir, files_dir, output_dir]: mkdir
DriverMakeDirectories ==
    /\ calc.pc = "dirs"
    /\ \E fail_at \in 0..3 :
        LET fw == calc.manifest.firmwares[calc.i]
            r == make_directories(tree, build_directories(fw), fail_at)
        IN  /\ tree' = r.tree
            /\ calc' = Stepped("dirs", r.exc, "files")
    /\ UNCHANGED <<pipeline_vars, mat>>

\* main.build: if files is not None: create_files(files, files_dir)
DriverCreateFiles ==
    /\ calc.pc = "files"
    /\ IF dict_get(calc.manifest.firmwares[calc.i], "files") # None
       THEN \E exc \in step_outcomes("files") : calc' = Stepped("files", exc, "config")
       ELSE calc' = [calc EXCEPT !.pc = "config"]
    /\ UNCHANGED <<pipeline_vars, files_vars>>

\* main.build: if owrt_config is not None: cfg.create_files(files_dir) and
\* cfg.create_sysupgrade_tarball(output_dir)
DriverCreateConfig ==
    /\ calc.pc = "config"
    /\ IF dict_get(calc.manifest.firmwares[calc.i], "config") # None
       THEN \E exc \in step_outcomes("config") : calc' = Stepped("config", exc, "build")
       ELSE calc' = [calc EXCEPT !.pc = "build"]
    /\ UNCHANGED <<pipeline_vars, files_vars>>

\* main.build: if not config_only: builder.build_firmware(...); then the
\* loop goes to the next firmware
DriverBuildFirmware ==
    /\ calc.pc = "build"
    /\ IF ~calc.config_only
       THEN \E exc \in step_outcomes("build") :
                LET after == Stepped("build", exc, "next")
                IN  calc' = IF after.pc = "next" THEN NextFirmware(after) ELSE after
       ELSE calc' = NextFirmware(calc)
    /\ UNCHANGED <<pipeline_vars, files_vars>>

NextBatch ==
    \/ DriverValidate
    \/ DriverMakeDirectories
    \/ DriverCreateFiles
    \/ DriverCreateConfig
    \/ DriverBuildFirmware

\* main.build on a manifest, with and without --config-only
SpecBatch == InitBatch /\ [][NextBatch]_vars

\* ================================================================ claims
InTrace(p, step) == step \in Range(pipe[p].trace)
Called(p, op, arg) == <<op, arg>> \in Range(pipe[p].calls)
CallsOf(p, op) == {i \in DOMAIN pipe[p].calls : pipe[p].calls[i][1] = op}

\* C1: cache-skip.  In a run whose image-existence check for a tier reported
\* that the image exists, neither the context preparation nor the image build
\* of that tier is invoked (nor, for the builder tier, the archive fetch).
C1_CacheSkip ==
    \A p \in Pipelines :
        /\ pipe[p].base_check = "exists" =>
            /\ ~InTrace(p, "BasePrepare")
            /\ ~InTrace(p, "BaseCreate")
            /\ ~Called(p, "buildImage", _BASE_IMAGE_TAG)
        /\ pipe[p].builder_check = "exists" =>
            /\ ~InTrace(p, "BuilderPrepare")
            /\ ~InTrace(p, "ArchiveFetch")
            /\ ~InTrace(p, "BuilderCreate")
            /\ ~Called(p, "buildImage", my_builder_tag(pipe[p]))
            /\ CallsOf(p, "GET") = {}

\* a run that found both images, skipped both tiers and went through the
\* firmware build step
C1_Witness ==
    \E p \in Pipelines :
        /\ pipe[p].base_check = "exists"
        /\ pipe[p].builder_check = "exists"
        /\ pipe[p].pc = "terminated"
        /\ pipe[p].trace = <<"BaseCheck", "BuilderCheck", "FirmwareBuild">>

Successors(step) ==
    CASE step = "BaseCheck" -> {"BasePrepare", "BuilderCheck"}
      [] step = "BasePrepare" -> {"BaseCreate"}
      [] step = "BaseCreate" -> {"BuilderCheck"}
      [] step = "BuilderCheck" -> {"BuilderPrepare", "FirmwareBuild"}
      [] step = "BuilderPrepare" -> {"ArchiveFetch"}
      [] step = "ArchiveFetch" -> {"BuilderCreate"}
      [] step = "BuilderCreate" -> {"FirmwareBuild"}
      [] OTHER -> {}

\* C2: the steps of a run occur only in the order BaseCheck, [BasePrepare,
\* BaseCreate], BuilderCheck, [BuilderPrepare, ArchiveFetch, BuilderCreate],
\* FirmwareBuild, Done: the run starts with BaseCheck, every step follows a
\* step it may follow (so a tier's bracket is gone through in full or not at
\* all before the next tier's step), the step to come is one the last step may
\* be followed by, a run that raised has stopped, and Done follows
\* FirmwareBuild only.
C2_PipelineOrder ==
    \A p \in Pipelines :
        LET tr == pipe[p].trace
            pc == pipe[p].pc
        IN  /\ tr # <<>> => tr[1] = "BaseCheck"
            /\ \A i \in 1..(Len(tr) - 1) : tr[i + 1] \in Successors(tr[i])
            /\ tr = <<>> => pc \in {"idle", "BaseCheck"}
            /\ (tr # <<>> /\ pc \notin {"terminated", "ArchiveOpen", "ArchiveWrite"})
                    => pc \in Successors(tr[Len(tr)])
            /\ pc \in {"ArchiveOpen", "ArchiveWrite"} => tr[Len(tr)] = "ArchiveFetch"
            /\ pipe[p].outcome # None => pc = "terminated"
            /\ pipe[p].outcome = "Done" => tr[Len(tr)] = "FirmwareBuild"

\* a run that went through the whole builder bracket, in order
C2_Witness ==
    \E p \in Pipelines :
        pipe[p].trace = <<"BaseCheck", "BuilderCheck", "BuilderPrepare",
                          "ArchiveFetch", "BuilderCreate">>

\* C3: a run that starts with the base image, the builder image and the
\* staged archive all absent, and in which every external call succeeds, goes
\* through all the bracketed steps in order and ends in Done, having issued
\* exactly one archive fetch, two image builds (one base, one builder) and
\* then one firmware container run.
C3_EndToEnd ==
    \A p \in Pipelines :
        (pipe[p].pc = "terminated" /\ pipe[p].all_absent_at_start /\ pipe[p].ext_ok)
        => /\ pipe[p].outcome = "Done"
           /\ pipe[p].trace = <<"BaseCheck", "BasePrepare", "BaseCreate",
                                "BuilderCheck", "BuilderPrepare", "ArchiveFetch",
                                "BuilderCreate", "FirmwareBuild">>
           /\ Cardinality(CallsOf(p, "GET")) = 1
           /\ Cardinality(CallsOf(p, "buildImage")) = 2
           /\ Called(p, "buildImage", _BASE_IMAGE_TAG)
           /\ Called(p, "buildImage", my_builder_tag(pipe[p]))
           /\ Cardinality(CallsOf(p, "runContainer")) = 1
           /\ pipe[p].calls[Len(pipe[p].calls)][1] = "runContainer"

\* C4: no retry.  Within one run no external operation (an image-existence
\* check of a tier, the base image build, the builder image build, the archive
\* GET, the firmware container run) is invoked twice, and once one of them has
\* failed the run has stopped with a failure: no further step is invoked.
C4_NoRetry ==
    \A p \in Pipelines :
        /\ \A i, j \in DOMAIN pipe[p].calls :
                pipe[p].calls[i] = pipe[p].calls[j] => i = j
        /\ Cardinality(CallsOf(p, "GET")) <= 1
        /\ Cardinality(CallsOf(p, "runContainer")) <= 1
        /\ ~pipe[p].ext_ok =>
            /\ pipe[p].pc = "terminated"
            /\ pipe[p].outcome \notin {None, "Done"}

\* a run stopped by a failed builder image build, after every other external
\* operation of the run was invoked once
C4_Witness ==
    \E p \in Pipelines :
        /\ ~pipe[p].ext_ok
        /\ pipe[p].pc = "terminated"
        /\ pipe[p].trace[Len(pipe[p].trace)] = "BuilderCreate"
        /\ Cardinality(CallsOf(p, "GET")) = 1
        /\ ~Called(p, "runContainer", my_builder_tag(pipe[p]))
        /\ my_builder_tag(pipe[p]) \notin images

Taxonomy ==
    {"ContextDirectoryCreationFailure", "ImageBuilderRetrievalFailure",
     "BaseImageBuildFailure", "BuilderImageBuildFailure", "FirmwareBuildFailure"}

\* C5: every run ends in Done or in one of the taxonomy's failures
\* (ContextCreationFailure, ArchiveRetrievalFailure, BaseImageBuildFailure,
\* BuilderImageBuildFailure, FirmwareBuildFailure): no failure of the
\* image-existence check, of the archive GET's transport or of a write in the
\* context directory surfaces as another kind of error.
C5_TerminalOutcomes ==
    \A p \in Pipelines :
        pipe[p].pc = "terminated" => pipe[p].outcome \in Taxonomy \cup {"Done"}


\* C6: the Archive Fetcher is idempotent by presence.  A call of
\* _retrieve_builder_archive that finds the archive path on disk returns
\* without a network request and without touching the filesystem, whatever the
\* remote origin would answer; and a call that returned left the archive on
\* disk, so the call after a successful one does no network I/O.
C6_ArchiveFetchIdempotent ==
    /\ [][\A p \in Pipelines :
            (/\ pipe[p].pc = "ArchiveFetch"
             /\ exists(fs, my_archive(pipe[p]))
             /\ pipe'[p] # pipe[p])
            => /\ fs' = fs
               /\ pipe'[p].calls = pipe[p].calls
               /\ pipe'[p].gets_total = pipe[p].gets_total
               /\ pipe'[p].outcome = None
               /\ pipe'[p].pc = "BuilderCreate"]_vars
    /\ [](\A p \in Pipelines :
            pipe[p].pc = "BuilderCreate" => exists(fs, my_archive(pipe[p])))

\* the second of two calls: the first run downloaded the whole archive (the
\* pipeline's only GET), the second run's call returned by presence
C6_Witness ==
    \E p \in Pipelines :
        /\ pipe[p].runs = 2
        /\ pipe[p].archive_skipped
        /\ pipe[p].gets_total = 1
        /\ fs[my_archive(pipe[p])] = File(ArchiveBody)

\* C7: the build command put together by Builder.build_firmware is what the
\* container run executes: once the firmware build step is over, a container
\* was run on the builder-tier image tag with that command.
C7_RunExecutesBuildCmd ==
    \A p \in Pipelines :
        (pipe[p].pc = "terminated" /\ InTrace(p, "FirmwareBuild"))
        => \E i \in DOMAIN pipe[p].container_runs :
              /\ pipe[p].container_runs[i].image = my_builder_tag(pipe[p])
              /\ pipe[p].container_runs[i].command = Command(pipe[p].build_cmd)

\* the PACKAGES=... tokens a command can hold
PackagesTokens ==
    {"PACKAGES=" \o x :
        x \in {as_string(d) : d \in PackageDeltas \ {NoDelta}} \cup {None}}
HasPackagesToken(cmd) == \E i \in DOMAIN cmd : cmd[i] \in PackagesTokens

\* C8 as stated: the command holds no PACKAGES token when no delta was
\* supplied or when the supplied delta is empty (add and remove both empty).
C8_NoPackagesTokenForEmptyDelta ==
    \A p \in Pipelines :
        (/\ InTrace(p, "FirmwareBuild")
         /\ (pipe[p].delta.is_none \/ as_string(pipe[p].delta) = ""))
        => ~HasPackagesToken(pipe[p].build_cmd)

\* C8 as amended: the command holds a PACKAGES token exactly when a delta was
\* supplied, and the token is then PACKAGES=<the delta's string>, which for an
\* empty delta is the token PACKAGES= with nothing after it.
C8_PackagesTokenIffDeltaSupplied ==
    \A p \in Pipelines :
        InTrace(p, "FirmwareBuild") =>
            /\ HasPackagesToken(pipe[p].build_cmd) <=> ~pipe[p].delta.is_none
            /\ ~pipe[p].delta.is_none =>
                \E i \in DOMAIN pipe[p].build_cmd :
                    pipe[p].build_cmd[i] = "PACKAGES=" \o as_string(pipe[p].delta)

\* a command built for a supplied, empty delta
C8_Witness ==
    \E p \in Pipelines :
        /\ InTrace(p, "FirmwareBuild")
        /\ pipe[p].delta = Delta(<<>>, <<>>)
        /\ pipe[p].build_cmd[5] = "PACKAGES="

\* C9: whatever the inputs, the command without its PACKAGES token is make,
\* image, PROFILE=<profile>, BIN_DIR=/openwrt/result, then FILES=/openwrt/files
\* exactly when a files directory was supplied, then EXTRA_IMAGE_NAME=<name>
\* exactly when an extra name was supplied, and at most one token is a
\* PACKAGES token.
C9_BuildCmdShape ==
    \A p \in Pipelines :
        InTrace(p, "FirmwareBuild") =>
            LET cmd == pipe[p].build_cmd
                IsOther(tok) == tok \notin PackagesTokens
            IN  /\ SelectSeq(cmd, IsOther) =
                        <<"make", "image", "PROFILE=" \o pipe[p].profile,
                          "BIN_DIR=/openwrt/result">>
                        \o (IF pipe[p].files_dir # None
                            THEN <<"FILES=/openwrt/files">> ELSE <<>>)
                        \o (IF pipe[p].extra_name # None
                            THEN <<"EXTRA_IMAGE_NAME=" \o pipe[p].extra_name>>
                            ELSE <<>>)
                /\ Len(cmd) - Len(SelectSeq(cmd, IsOther)) <= 1

\* a command built with a files directory and an extra name
C9_Witness ==
    \E p \in Pipelines :
        /\ InTrace(p, "FirmwareBuild")
        /\ pipe[p].files_dir # None
        /\ pipe[p].extra_name # None
        /\ ~pipe[p].delta.is_none
        /\ Len(pipe[p].build_cmd) = 7

IsFilesMount(m, files_dir) ==
    /\ m.type = "bind"
    /\ m.target = "/openwrt/files"
    /\ m.read_only
    /\ m.source = absolute(files_dir)

\* C10: the mounts _build_firmware hands to the container run are the output
\* directory, bind-mounted read-write at /openwrt/result, and the files
\* directory, bind-mounted read-only at /openwrt/files, exactly when a files
\* directory was supplied; the FILES token is in the command exactly when the
\* files mount is among the mounts; a container run gets these mounts.
C10_Mounts ==
    \A p \in Pipelines :
        InTrace(p, "FirmwareBuild") =>
            LET m == pipe[p].mounts
                files_mounted ==
                    \E i \in DOMAIN m : m[i].target = "/openwrt/files"
            IN  /\ Len(m) = IF pipe[p].files_dir # None THEN 2 ELSE 1
                /\ m[1].type = "bind"
                /\ m[1].target = "/openwrt/result"
                /\ m[1].source = absolute(pipe[p].output_dir)
                /\ ~m[1].read_only
                /\ files_mounted <=> pipe[p].files_dir # None
                /\ \A i \in DOMAIN m :
                        m[i].target = "/openwrt/files"
                        => IsFilesMount(m[i], pipe[p].files_dir)
                /\ ("FILES=/openwrt/files" \in Range(pipe[p].build_cmd))
                        <=> files_mounted
                /\ \A i \in DOMAIN pipe[p].container_runs :
                        pipe[p].container_runs[i].mounts = m

\* _build_firmware built its mounts for a supplied files directory
C10_Witness ==
    \E p \in Pipelines :
        /\ InTrace(p, "FirmwareBuild")
        /\ pipe[p].files_dir # None
        /\ Len(pipe[p].mounts) = 2
        /\ "FILES=/openwrt/files" \in Range(pipe[p].build_cmd)

\* the context directory a pipeline is preparing in this state, if its run
\* found the tier's image absent
PreparingAbsent(p, d) ==
    \/ /\ pipe[p].pc = "BasePrepare"
       /\ pipe[p].base_check = "absent"
       /\ d = base_context_dir(work_dir)
    \/ /\ pipe[p].pc = "BuilderPrepare"
       /\ pipe[p].builder_check = "absent"
       /\ d = my_builder_context(pipe[p])

\* C11: a context directory, once it exists, is never overwritten.  No step
\* of any run changes a context directory that exists or a Containerfile or
\* entrypoint.sh that exists in it.
C11_ContextNeverOverwritten ==
    [][\A d \in ContextDirs :
          /\ exists(fs, d) => fs'[d] = fs[d]
          /\ \A path \in ContextFiles(d) : exists(fs, path) => fs'[path] = fs[path]]_vars

\* C11 (amended): an existing context directory is never removed or
\* replaced, and its Containerfile and entrypoint.sh change only in the
\* preparation step of a run that found the tier's image absent; every other
\* step, and every run that found the image present, leaves them as they are.
C11_ContextRewrittenOnlyWhenImageAbsent ==
    [][\A d \in ContextDirs :
          /\ exists(fs, d) => fs'[d] = fs[d]
          /\ \A path \in ContextFiles(d) :
                fs'[path] # fs[path] => \E p \in Pipelines : PreparingAbsent(p, d)]_vars

\* a later run rewrote the Containerfile of a base context directory that
\* already held one
C11_Witness ==
    \E p \in Pipelines :
        LET path == PathJoin(base_context_dir(work_dir), "Containerfile")
        IN  /\ path \in pipe[p].overwrote
            /\ pipe[p].base_check = "absent"
            /\ fs[path] = File(_BASE_CONTAINERFILE)

\* the context directory and recipe of the preparation step a pipeline is at
PrepareRoot(p) ==
    IF pipe[p].pc = "BasePrepare" THEN base_context_dir(work_dir)
    ELSE my_builder_context(pipe[p])
PrepareRecipe(p) ==
    IF pipe[p].pc = "BasePrepare" THEN _BASE_CONTAINERFILE
    ELSE builder_containerfile(pipe[p].version, pipe[p].target, pipe[p].sub_target)

\* C12: overwrite policy of the context preparer.  Whenever
\* _prepare_context_dir is called on a root that is a directory and returns,
\* the Containerfile and entrypoint.sh of the root hold exactly the supplied
\* contents, whatever they held before, and every other path (the staged
\* archive among them) is as it was.
C12_PrepareOverwrites ==
    [][\A p \in Pipelines :
          (/\ pipe[p].pc \in {"BasePrepare", "BuilderPrepare"}
           /\ is_dir(fs, PrepareRoot(p))
           /\ pipe'[p].pc \in {"BaseCreate", "ArchiveFetch"})
          => /\ fs'[PathJoin(PrepareRoot(p), "Containerfile")] = File(PrepareRecipe(p))
             /\ fs'[PathJoin(PrepareRoot(p), _ENTRYPOINT_SCRIPT_NAME)]
                    = File(_ENTRYPOINT_SCRIPT)
             /\ \A path \in Paths \ ContextFiles(PrepareRoot(p)) :
                    fs'[path] = fs[path]]_vars

\* the builder context held a stale Containerfile, a stale entrypoint.sh and
\* a staged archive; the preparation returned, both files were replaced by
\* the recipe's and the archive is as it was
C12_Witness ==
    \E p \in Pipelines :
        LET d == my_builder_context(pipe[p])
        IN  /\ pipe[p].pc = "ArchiveFetch"
            /\ ContextFiles(d) \subseteq pipe[p].overwrote
            /\ fs[PathJoin(d, "Containerfile")] =
                    File(builder_containerfile(pipe[p].version, pipe[p].target,
                                               pipe[p].sub_target))
            /\ fs[PathJoin(d, _ENTRYPOINT_SCRIPT_NAME)] = File(_ENTRYPOINT_SCRIPT)
            /\ fs[my_archive(pipe[p])] = File(ArchiveBody)

Last(seq) == seq[Len(seq)]

\* the run of p ended in its image build step `step`, whose build failed
\* (every earlier external call of a run that got there succeeded)
BuildFailedAt(p, step) ==
    /\ pipe[p].pc = "terminated"
    /\ pipe[p].trace # <<>>
    /\ Last(pipe[p].trace) = step
    /\ ~pipe[p].ext_ok

\* C13: a failed base image build is reported as BaseImageBuildFailure and
\* a failed builder image build as BuilderImageBuildFailure, and either ends
\* the run: no builder check, fetch, builder build or firmware build after a
\* base build failure, no firmware build after a builder build failure.
C13_BuildFailureReported ==
    \A p \in Pipelines :
        /\ BuildFailedAt(p, "BaseCreate")
            => /\ pipe[p].outcome = "BaseImageBuildFailure"
               /\ \A step \in {"BuilderCheck", "ArchiveFetch", "BuilderCreate",
                                "FirmwareBuild"} : ~InTrace(p, step)
        /\ BuildFailedAt(p, "BuilderCreate")
            => /\ pipe[p].outcome = "BuilderImageBuildFailure"
               /\ ~InTrace(p, "FirmwareBuild")

\* C14: with the archive not staged, a non-success status of the download
\* or a transport error makes the fetcher fail with
\* ImageBuilderRetrievalFailure, and the builder image build is not invoked.
C14_RetrievalFailureReported ==
    \A p \in Pipelines :
        pipe[p].get_response \in {"not_ok", "RequestException"}
        => /\ pipe[p].pc = "terminated"
           /\ pipe[p].outcome = "ImageBuilderRetrievalFailure"
           /\ ~InTrace(p, "BuilderCreate")

\* C15: a failure of the firmware container run (non-zero exit, transport
\* error) is reported as FirmwareBuildFailure and the run does not reach
\* Done: a run that ends in its firmware build step ends either in Done or
\* in FirmwareBuildFailure.
C15_FirmwareFailureReported ==
    \A p \in Pipelines :
        (/\ pipe[p].pc = "terminated"
         /\ pipe[p].trace # <<>>
         /\ Last(pipe[p].trace) = "FirmwareBuild"
         /\ pipe[p].outcome # "Done")
        => pipe[p].outcome = "FirmwareBuildFailure"

\* the position of a step in the run's trace (each step is entered at most
\* once per run)
Pos(p, step) == CHOOSE i \in DOMAIN pipe[p].trace : pipe[p].trace[i] = step

\* C19: the archive fetch is invoked only in a run in which the builder image
\* was reported absent, only after BuilderPrepare and before BuilderCreate,
\* and it issues a download only if the archive is not already in the builder
\* context; BuilderCreate is never invoked unless the archive file is in the
\* builder context at that point.
C19_ArchiveFetchGate ==
    /\ [](\A p \in Pipelines :
            /\ (pipe[p].pc \in {"ArchiveFetch", "ArchiveOpen", "ArchiveWrite"}
                 \/ InTrace(p, "ArchiveFetch"))
                => /\ pipe[p].builder_check = "absent"
                   /\ InTrace(p, "BuilderPrepare")
            /\ InTrace(p, "ArchiveFetch")
                => /\ Pos(p, "BuilderPrepare") < Pos(p, "ArchiveFetch")
                   /\ InTrace(p, "BuilderCreate")
                        => Pos(p, "ArchiveFetch") < Pos(p, "BuilderCreate")
            /\ pipe[p].pc = "ArchiveFetch" => ~InTrace(p, "BuilderCreate")
            /\ pipe[p].pc = "BuilderCreate"
                => /\ InTrace(p, "ArchiveFetch")
                   /\ exists(fs, my_archive(pipe[p])))
    /\ [][\A p \in Pipelines :
            pipe'[p].gets_total > pipe[p].gets_total
            => /\ pipe[p].pc = "ArchiveFetch"
               /\ ~exists(fs, my_archive(pipe[p]))]_vars

\* a run that found the builder image absent prepared the context, fetched
\* the archive with one download and is about to build the builder image
\* with the archive in the builder context
C19_Witness ==
    \E p \in Pipelines :
        /\ pipe[p].pc = "BuilderCreate"
        /\ pipe[p].builder_check = "absent"
        /\ Called(p, "GET", archive_url(pipe[p].version, pipe[p].target,
                                        pipe[p].sub_target))
        /\ Pos(p, "BuilderPrepare") < Pos(p, "ArchiveFetch")
        /\ fs[my_archive(pipe[p])] = File(ArchiveBody)

\* the files of a tree
FilesIn(t) == {path \in DOMAIN t : t[path].kind = "file"}
\* a package body as the text the renderer emitted for it
BodyText(body) == str_join("\n", body \o <<"">>)

\* C16: config split.  A rendered configuration of n >= 1 package sections,
\* materialized into an existing, empty files directory with no failure of
\* the operating system, succeeds and leaves exactly n files, one per
\* section at <files_dir>/etc/config/<package name>, each holding that
\* section's body.
C16_ConfigSplit ==
    LET call == mat.last
    IN  (/\ call.op = "OpenWrtConfig.create_files"
         /\ call.valid
         /\ call.io_ok
         /\ call.before = TreeOf("empty"))
        => /\ call.exc = None
           /\ Cardinality(FilesIn(tree)) = Len(call.config)
           /\ \A i \in DOMAIN call.config :
                tree[ConfigTarget(call.config[i].name)]
                    = File(BodyText(call.config[i].body))

\* C17: collision policy.  Whenever a materializer (of literal files or of
\* config packages) gets to a target path that already exists, the call
\* raises ConfigCreationError and what is at the path is unchanged; and no
\* step of any sequence of materializer calls on a files directory changes a
\* file that exists.
C17_NoOverwrite ==
    /\ [](LET call == mat.last
              target == resolve(Last(call.attempted))
          IN  (/\ call.op # "OpenWrtConfig.create_sysupgrade_tarball"
               /\ call.attempted # <<>>
               /\ exists(call.before, target))
              => /\ call.exc = "ConfigCreationError"
                 /\ tree[target] = call.before[target])
    /\ [][mat'.last.op # "OpenWrtConfig.create_sysupgrade_tarball"
            => \A path \in TreePaths :
                    tree[path].kind = "file" => tree'[path] = tree[path]]_vars

\* a config package file collided with the literal file an earlier call
\* wrote at the same path: ConfigCreationError, the literal file still there
C17_Witness ==
    LET call == mat.last
        target == ConfigTarget("network")
    IN  /\ call.op = "OpenWrtConfig.create_files"
        /\ call.attempted = <<target>>
        /\ call.exc = "ConfigCreationError"
        /\ call.before[target] = File("literal network")
        /\ tree[target] = File("literal network")

\* C18: the builder image tag is unique per (version, target, sub_target):
\* two tuples that differ in a component get different builder tags and
\* different builder context directories; the base tag is the same constant
\* for every BuildSpec and never equals a builder tag.
C18_TagsUnique ==
    calc.done
    => /\ calc.a # calc.b
            => /\ calc.names_a.builder_tag # calc.names_b.builder_tag
               /\ calc.names_a.builder_dir # calc.names_b.builder_dir
       /\ calc.names_a.base_tag = calc.names_b.base_tag
       /\ calc.names_a.base_tag # calc.names_a.builder_tag
       /\ calc.names_a.base_tag # calc.names_b.builder_tag

\* the five key fields of a manifest entry, an absent name counting as None
KeyFields == {"target", "sub_target", "profile", "version", "name"}
Agree(f, g) ==
    \A k \in KeyFields :
        (IF k \in DOMAIN f THEN f[k] ELSE None) = (IF k \in DOMAIN g THEN g[k] ELSE None)
Complete(f) == {"target", "sub_target", "profile", "version"} \subseteq DOMAIN f

\* C20: batch uniqueness validation.  valid_manifest accepts a batch (whose
\* entries carry target, sub_target, profile and version) if and only if no
\* two of its entries agree on all five key fields; so two entries differing
\* only in extra name, one of them without a name, are accepted, and a batch
\* with two entries identical in all five fields is rejected.
C20_BatchUniqueness ==
    LET firmwares == calc.manifest.firmwares
    IN  (calc.done /\ \A i \in DOMAIN firmwares : Complete(firmwares[i]))
        => (calc.result
            <=> \A i, j \in DOMAIN firmwares :
                    i # j => ~Agree(firmwares[i], firmwares[j]))

\* a batch of three entries that differ only in extra name, one of them
\* without a name, was accepted
C20_Witness ==
    /\ calc.done
    /\ calc.result
    /\ calc.manifest.firmwares
        = <<BaseFirmware, Named(BaseFirmware, "lab"), Named(BaseFirmware, "prod")>>

\* C21: concurrent pipelines for the same tier are not mutually excluded.
\* A pipeline's check answers from the image store alone: with the image
\* absent it goes on to the context preparation whatever the other pipeline
\* is doing, a pipeline between its check and its build observed the image
\* absent, and its build step invokes the image build without a second
\* check; so both pipelines can observe the image absent and both prepare
\* the context and build the image (the witness).
C21_GateNotExclusive ==
    /\ [](\A p \in Pipelines :
            /\ pipe[p].pc \in {"BasePrepare", "BaseCreate"}
                => pipe[p].base_check = "absent"
            /\ pipe[p].pc \in {"BuilderPrepare", "ArchiveFetch", "ArchiveOpen",
                                "ArchiveWrite", "BuilderCreate"}
                => pipe[p].builder_check = "absent")
    /\ [][\A p \in Pipelines :
            /\ (/\ pipe[p].pc = "BaseCheck"
                 /\ _BASE_IMAGE_TAG \notin images
                 /\ pipe'[p].pc \notin {"BaseCheck", "terminated"})
                => pipe'[p].pc = "BasePrepare"
            /\ (pipe[p].pc = "BaseCreate" /\ pipe'[p] # pipe[p])
                => Called(p, "buildImage", _BASE_IMAGE_TAG)']_vars

\* both pipelines, each in its first run, observed the base image absent,
\* prepared the base context and invoked the base image build
C21_Witness ==
    \A p \in Pipelines :
        /\ pipe[p].runs = 1
        /\ pipe[p].base_check = "absent"
        /\ InTrace(p, "BasePrepare")
        /\ Called(p, "buildImage", _BASE_IMAGE_TAG)

RECURSIVE Spaced(_)
\* the tokens with one space between neighbours
Spaced(tokens) ==
    IF tokens = <<>> THEN ""
    ELSE tokens[1] \o (IF Len(tokens) > 1 THEN " " \o Spaced(Tail(tokens)) ELSE "")

\* C22: package delta serialization.  For every add list and remove list the
\* result is the add names in input order, then each remove name prefixed
\* with "-" in input order, one space between neighbours (add [a, b],
\* remove [c] gives "a b -c"; the empty delta gives ""); and
\* PackagesSpec.as_string, utils.create_package_list and
\* main.create_package_list return the same string.
C22_DeltaSerialization ==
    calc.done
    => LET n == Len(calc.add)
           tokens == [i \in 1..(n + Len(calc.remove)) |->
                        IF i <= n THEN calc.add[i] ELSE "-" \o calc.remove[i - n]]
       IN  /\ calc.as_string = Spaced(tokens)
           /\ calc.utils = calc.as_string
           /\ calc.main = calc.as_string
           /\ (calc.add = <<"a", "b">> /\ calc.remove = <<"c">>)
                => calc.as_string = "a b -c"
           /\ (calc.add = <<>> /\ calc.remove = <<>>) => calc.as_string = ""

\* add [a, b] and remove [c] were serialized, by all three, to "a b -c"
C22_Witness ==
    /\ calc.done
    /\ calc.add = <<"a", "b">>
    /\ calc.remove = <<"c">>
    /\ calc.as_string = "a b -c"
    /\ calc.utils = "a b -c"
    /\ calc.main = "a b -c"

C25_GateReadOnly ==
    [][\A p \in Pipelines :
          (pipe[p].pc \in {"BaseCheck", "BuilderCheck"} /\ pipe'[p] # pipe[p])
          => /\ images' = images
             /\ fs' = fs
             /\ Last(pipe'[p].calls)[1] = "imageExists"]_vars

\* a second run whose base check answered "exists" and whose builder check
\* answered "absent", after a first run's check; the store holds the base
\* image and not the builder image
C25_Witness ==
    \E p \in Pipelines :
        /\ pipe[p].runs = 2
        /\ pipe[p].base_check = "exists"
        /\ pipe[p].builder_check = "absent"
        /\ pipe[p].pc = "BuilderPrepare"
        /\ _BASE_IMAGE_TAG \in images
        /\ my_builder_tag(pipe[p]) \notin images

\* C29: with no concurrent pipeline, whenever a run reaches _build_firmware
\* both the base image and the builder image are in the image store, each
\* reported present by its check or built earlier in the same run; and every
\* run checks the base tier first, also when the builder image exists, and
\* does not go past the base tier with the base image absent and unbuilt.
C29_FirmwareBuildNeedsBothImages ==
    \A p \in Pipelines :
        LET me == pipe[p]
            base_done == me.base_check = "exists" \/ Called(p, "buildImage", _BASE_IMAGE_TAG)
        IN  /\ (me.pc = "FirmwareBuild" \/ InTrace(p, "FirmwareBuild"))
                => /\ _BASE_IMAGE_TAG \in images
                   /\ my_builder_tag(me) \in images
                   /\ base_done
                   /\ \/ me.builder_check = "exists"
                      \/ Called(p, "buildImage", my_builder_tag(me))
            /\ me.trace # <<>> => me.trace[1] = "BaseCheck"
            /\ (me.trace = <<>> /\ me.pc \notin {"idle", "terminated"}) => me.pc = "BaseCheck"
            /\ (me.pc = "BuilderCheck" \/ InTrace(p, "BuilderCheck"))
                => base_done /\ _BASE_IMAGE_TAG \in images

\* a run whose checks found both images in the store went from the base
\* check through the builder check into _build_firmware
C29_Witness ==
    \E p \in Pipelines :
        /\ pipe[p].trace = <<"BaseCheck", "BuilderCheck", "FirmwareBuild">>
        /\ pipe[p].base_check = "exists"
        /\ pipe[p].builder_check = "exists"
        /\ {_BASE_IMAGE_TAG, my_builder_tag(pipe[p])} \subseteq images

\* C30: after an archive fetch that failed because the response status was
\* not a success, the archive path does not exist (the run ended before any
\* open), and it still does not when a later run reaches the fetch step; that
\* run, having found the builder image absent, issues the GET again instead
\* of skipping the download.
C30_FailedFetchLeavesNoArchive ==
    /\ [](\A p \in Pipelines :
            LET me == pipe[p]
            IN  /\ me.get_response = "not_ok"
                    => /\ ~exists(fs, my_archive(me))
                       /\ me.pc = "terminated"
                       /\ me.outcome = "ImageBuilderRetrievalFailure"
                /\ (me.prev_get_response = "not_ok" /\ InTrace(p, "ArchiveFetch"))
                    => /\ me.builder_check = "absent"
                       /\ ~me.archive_skipped
                       /\ Called(p, "GET", archive_url(me.version, me.target, me.sub_target)))
    /\ [][\A p \in Pipelines :
            (/\ pipe[p].pc = "ArchiveFetch"
             /\ ~exists(fs, my_archive(pipe[p]))
             /\ pipe'[p] # pipe[p])
            => /\ pipe'[p].gets_total = pipe[p].gets_total + 1
               /\ Last(pipe'[p].calls)[1] = "GET"]_vars

\* the fetch of one run got a non-success status; the next run found the
\* builder image absent, reached the fetch step and issued the GET again
C30_Witness ==
    \E p \in Pipelines :
        /\ pipe[p].prev_get_response = "not_ok"
        /\ pipe[p].builder_check = "absent"
        /\ InTrace(p, "ArchiveFetch")
        /\ pipe[p].get_response # None
        /\ pipe[p].gets_total = 2

\* the directory a call of a config operation needs to find
NeededDir(call) ==
    IF call.op = "OpenWrtConfig.create_files" THEN FilesDir ELSE OutputDir

\* C24: config materialization and upgrade-archive creation validate first.
\* When the configuration does not validate, or the files directory (for
\* create_files) or archive directory (for create_sysupgrade_tarball) is no
\* directory, the call raises ConfigCreationError before it renders, gets to
\* no target, and leaves every path as it was: no file and no archive is
\* written.
C24_ValidateFirst ==
    LET call == mat.last
    IN  (/\ call.op \in {"OpenWrtConfig.create_files",
                         "OpenWrtConfig.create_sysupgrade_tarball"}
         /\ (~call.valid \/ ~is_dir(call.before, NeededDir(call))))
        => /\ call.exc = "ConfigCreationError"
           /\ ~call.rendered
           /\ call.attempted = <<>>
           /\ tree = call.before

\* after a materialization that wrote the network package file, an archive
\* creation with a configuration that does not validate, on an output
\* directory that exists, raised ConfigCreationError and wrote no archive
C24_Witness ==
    LET call == mat.last
    IN  /\ mat.n = 2
        /\ call.op = "OpenWrtConfig.create_sysupgrade_tarball"
        /\ ~call.valid
        /\ is_dir(call.before, OutputDir)
        /\ call.exc = "ConfigCreationError"
        /\ tree[ConfigTarget("network")].kind = "file"
        /\ ~exists(tree, tarball_path(OutputDir, "config"))

\* C26: materializing FileEntries with pairwise distinct absolute target
\* paths into an existing, empty files directory, with no failure of the
\* operating system, succeeds and leaves every listed file with its
\* contents, also when two entries share a parent directory and when an
\* entry sits directly under the root.
C26_DistinctEntriesMaterialize ==
    LET call == mat.last
    IN  (/\ call.op \in {"create_files", "create_file_tree_at_location"}
         /\ call.io_ok
         /\ call.before = TreeOf("empty"))
        => /\ call.exc = None
           /\ \A i \in DOMAIN call.files :
                tree[resolve(TargetOf(call.files[i]))] = File(call.files[i].contents)

\* C28: path containment.  Whatever the target paths of the entries, every
\* file or directory a materialization of FileEntries creates or changes
\* lies inside the files directory it was given.
C28_PathContainment ==
    LET call == mat.last
    IN  call.op \in {"create_files", "create_file_tree_at_location"}
        => \A path \in TreePaths :
                tree[path] # call.before[path]
                => Len(path) > Len(FilesDir)
                   /\ SubSeq(path, 1, Len(FilesDir)) = FilesDir

\* C27: every manifest valid_manifest accepts can have the base, files and
\* firmware directories of all its entries made under one fresh build
\* directory without collision: no directory creation of an accepted entry
\* finds its directory already there, and the base directories of two
\* entries are neither equal nor one inside the other.
C27_BuildDirsDisjoint ==
    LET firmwares == calc.manifest.firmwares
    IN  (calc.done /\ calc.result)
        => /\ calc.exit # "FileExistsError"
           /\ \A i, j \in DOMAIN firmwares :
                i # j => base_dir(firmwares[i]) \notin Prefixes(base_dir(firmwares[j]))

\* C31: the builder image is never built from an incompletely written
\* archive.  Whenever a run is at, or has been through, the builder image
\* build, the archive in its builder context directory holds the whole body
\* the origin serves: a file left partial by an interrupted download, of an
\* earlier run or of a concurrent pipeline, is never taken for the staged
\* archive.
C31_NoBuildFromPartialArchive ==
    \A p \in Pipelines :
        (pipe[p].pc = "BuilderCreate" \/ InTrace(p, "BuilderCreate"))
        => fs[my_archive(pipe[p])] = File(ArchiveBody)

\* the target and the contents of the i-th entry of a materializer call:
\* of its literal files, or of the package sections of its configuration
EntryTarget(call, i) ==
    IF call.op = "OpenWrtConfig.create_files" THEN ConfigTarget(call.config[i].name)
    ELSE resolve(TargetOf(call.files[i]))
EntryContents(call, i) ==
    IF call.op = "OpenWrtConfig.create_files" THEN BodyText(call.config[i].body)
    ELSE call.files[i].contents
EntryCount(call) ==
    IF call.op = "OpenWrtConfig.create_files" THEN Len(call.config) ELSE Len(call.files)

\* C32: materialization has no rollback.  When a materializer of literal
\* files or of config package sections fails at its k-th entry, the files of
\* the first k-1 entries have been written and are on disk with their
\* contents, and no entry after the k-th has been written: its target is as
\* it was before the call.
C32_NoRollback ==
    LET call == mat.last
        k == Len(call.attempted)
    IN  (/\ call.op \in {"create_files", "create_file_tree_at_location",
                         "OpenWrtConfig.create_files"}
         /\ call.exc # None
         /\ k > 0)
        => /\ k <= EntryCount(call)
           /\ \A i \in 1..EntryCount(call) :
                /\ i <= k => resolve(call.attempted[i]) = EntryTarget(call, i)
                /\ i < k => /\ tree[EntryTarget(call, i)] = File(EntryContents(call, i))
                            /\ ~exists(call.before, EntryTarget(call, i))
                /\ i > k => tree[EntryTarget(call, i)] = call.before[EntryTarget(call, i)]

\* a materialization of two literal files into an empty files directory
\* failed at the second: the first file is on disk, the second is not
C32_Witness ==
    LET call == mat.last
    IN  /\ call.op = "create_file_tree_at_location"
        /\ call.before = TreeOf("empty")
        /\ Len(call.files) = 2
        /\ Len(call.attempted) = 2
        /\ call.exc = "ConfigCreationError"
        /\ tree[EntryTarget(call, 1)] = File(EntryContents(call, 1))
        /\ ~exists(tree, EntryTarget(call, 2))

\* the place of a step among the steps of one firmware
StepRank(step) ==
    CASE step = "dirs" -> 1 [] step = "files" -> 2 [] step = "config" -> 3 [] OTHER -> 4

\* the steps of the log that belong to firmware i
StepsOf(i) == {calc.log[n][2] : n \in {m \in DOMAIN calc.log : calc.log[m][1] = i}}

\* C33: the batch driver main.build processes the firmwares one at a time in
\* manifest order, each through directory creation, file materialization,
\* config materialization and then the build pipeline; the first failure in
\* any of these steps stops the batch, so that no step of a later firmware
\* is executed; and with --config-only no build pipeline is invoked.
C33_BatchStopsAtFirstFailure ==
    LET log == calc.log
        firmwares == calc.manifest.firmwares
    IN  /\ \A a, b \in DOMAIN log :
                a < b => \/ log[a][1] < log[b][1]
                         \/ /\ log[a][1] = log[b][1]
                            /\ StepRank(log[a][2]) < StepRank(log[b][2])
        /\ \A a \in DOMAIN log : a < Len(log) => log[a][3] = None
        /\ (log # <<>> /\ Last(log)[3] # None)
                => /\ calc.exit # None
                   /\ calc.pc = "exited"
                   /\ Last(log)[1] = calc.i
        /\ calc.exit # None => \A a \in DOMAIN log : log[a][1] <= calc.i
        /\ \A i \in DOMAIN firmwares :
                (i < calc.i \/ calc.pc = "done")
                => /\ "dirs" \in StepsOf(i)
                   /\ "files" \in StepsOf(i) <=> "files" \in DOMAIN firmwares[i]
                   /\ "config" \in StepsOf(i) <=> "config" \in DOMAIN firmwares[i]
                   /\ "build" \in StepsOf(i) <=> ~calc.config_only
        /\ calc.config_only => \A a \in DOMAIN log : log[a][2] # "build"
        /\ calc.pc \in {"exited", "done"} => ~ENABLED NextBatch

\* without --config-only, a manifest of two firmwares with files and config
\* sections: the first went through its four steps in order, its build
\* failed, and no step of the second was executed
C33_Witness ==
    /\ ~calc.config_only
    /\ Len(calc.manifest.firmwares) = 2
    /\ calc.pc = "exited"
    /\ calc.exit # None
    /\ Len(calc.log) = 4
    /\ [n \in 1..4 |-> <<calc.log[n][1], calc.log[n][2]>>]
            = <<<<1, "dirs">>, <<1, "files">>, <<1, "config">>, <<1, "build">>>>
    /\ Last(calc.log)[3] # None
====
